---- MODULE Spec2Model ----
(***************************************************************************)
(* A model of the declarative infrastructure of ecs_boilerplate: the       *)
(* resource graph that the stack constructors declare.  Every constructor  *)
(* is one action; the variants of a stack that the repository holds are    *)
(* each modelled by an operator of their own and chosen per construction.  *)
(***************************************************************************)
EXTENDS Integers, Sequences, FiniteSets, TLC

VARIABLES
    pc,            \* position of the composition root's constructor
    env,           \* process.env: a function from the variables that are set
    regionZones,   \* the availability zones the stack's region offers
    proj,          \* EcsBoilerplateStack.proj
    vpcStack,      \* the resources declared by VPCStack
    databaseStack, \* the resources declared by DatabaseStack
    ecsStack,      \* the resources declared by ECSStack
    deployStack,   \* the resources declared by DeployStack
    fnZones,       \* subnet creation applied to a zone list: its argument
    fnSubnets,     \* subnet creation applied to a zone list: its result
    root,          \* which of the repository's composition roots is run
    stackEnv,      \* the env property (account, region) handed to every stack
    constructed,   \* the stacks constructed so far, in order, each with the
                   \* stacks whose handles its constructor was given
    rollout,       \* the deployment engine's rollout of the service
    execution      \* the pipeline engine's current execution

vars == <<pc, env, regionZones, proj, vpcStack, databaseStack, ecsStack,
          deployStack, fnZones, fnSubnets, root, stackEnv, constructed,
          rollout, execution>>

inputVars == <<env, regionZones, root>>

subnetVars == <<fnZones, fnSubnets>>

engineVars == <<rollout, execution>>

(***************************************************************************)
(* Bounds of the model.                                                    *)
(***************************************************************************)
\* the number of availability zones a region may offer, and the longest
\* zone list handed to subnet creation on its own
MaxZones == 4

Zones == 1..MaxZones

ZoneName(k) == "ap-southeast-1-az" \o ToString(k)

\* every list of distinct zones of length n
RECURSIVE ZoneListsOfLen(_)
ZoneListsOfLen(n) ==
    IF n = 0 THEN {<<>>}
    ELSE {Append(l, ZoneName(k)) : l \in ZoneListsOfLen(n - 1), k \in Zones}

Range(s) == {s[i] : i \in DOMAIN s}

IsDistinct(s) == \A i, j \in DOMAIN s : i # j => s[i] # s[j]

ZoneLists == {l \in UNION {ZoneListsOfLen(n) : n \in 0..MaxZones} : IsDistinct(l)}

\* the zone lists a region reports: its zones in name order, none missing
RegionZoneLists == {[i \in 1..n |-> ZoneName(i)] : n \in 1..MaxZones}

(***************************************************************************)
(* process.env and template literals.                                      *)
(***************************************************************************)
EnvNames == {"PROJECT_NAME", "CDK_DEFAULT_ACCOUNT", "CDK_DEFAULT_REGION", "ECR_ARN", "ECR_URI"}

EnvValues(name) ==
    CASE name = "PROJECT_NAME" -> {"demo"}
      [] name = "CDK_DEFAULT_ACCOUNT" -> {"111122223333"}
      [] name = "CDK_DEFAULT_REGION" -> {"ap-southeast-1"}
      [] name = "ECR_ARN" -> {"arn:aws:ecr:ap-southeast-1:111122223333:repository/demo"}
      [] name = "ECR_URI" -> {"111122223333.dkr.ecr.ap-southeast-1.amazonaws.com/demo"}

IsEnvironment(e) == \A n \in DOMAIN e : e[n] \in EnvValues(n)

Environments ==
    {e \in UNION {[S -> UNION {EnvValues(n) : n \in EnvNames}] : S \in SUBSET EnvNames} :
        IsEnvironment(e)}

IsSet(e, name) == name \in DOMAIN e

\* `${process.env.X}`: an unset variable is interpolated as "undefined"
Interpolate(e, name) == IF IsSet(e, name) THEN e[name] ELSE "undefined"

\* process.env.X || fallback
OrDefault(e, name, fallback) == IF IsSet(e, name) THEN e[name] ELSE fallback

\* the value `undefined`, as distinct from the text "undefined"
Undefined == "(undefined)"

\* process.env.X, read as a value
Lookup(e, name) == IF IsSet(e, name) THEN e[name] ELSE Undefined

(***************************************************************************)
(* Network Foundation: the VPC.                                            *)
(***************************************************************************)
maxAzs == 3

Take(s, n) == SubSeq(s, 1, IF Len(s) < n THEN Len(s) ELSE n)

\* createVPC with no limit on the zones: the VPC spans every zone of the region
createVPCAllZones(p, azs) ==
    [id |-> "VPC",
     vpcName |-> p \o "-VPC",
     vpcCidrBlock |-> "10.0.0.0/16",
     maxAzs |-> Len(azs),
     natGateways |-> 0,
     subnetConfiguration |-> <<>>,
     availabilityZones |-> azs]

\* new cdk.aws_ec2.Vpc(...): the zones of the VPC are the region's, cut to
\* maxAzs; with an empty subnetConfiguration the construct declares no subnet
createVPC(p, azs) ==
    [id |-> "VPC",
     vpcName |-> p \o "-VPC",
     vpcCidrBlock |-> "10.0.0.0/16",
     maxAzs |-> maxAzs,
     natGateways |-> 0,
     subnetConfiguration |-> <<>>,
     availabilityZones |-> Take(azs, maxAzs)]

\* the subnets the Vpc construct declares itself: one per configuration
\* entry and zone
VpcConstructSubnets(vpc) ==
    {[group |-> vpc.subnetConfiguration[g], availabilityZone |-> vpc.availabilityZones[z]] :
        g \in DOMAIN vpc.subnetConfiguration, z \in DOMAIN vpc.availabilityZones}

(***************************************************************************)
(* Network Foundation: subnet creation, one operator per variant.  The     *)
(* code's indices are 0-based; a TLA+ sequence is 1-based.                 *)
(***************************************************************************)
CfnSubnet(id, cidrBlock, availabilityZone, mapPublicIpOnLaunch, name, type) ==
    [id |-> id,
     cidrBlock |-> cidrBlock,
     availabilityZone |-> availabilityZone,
     mapPublicIpOnLaunch |-> mapPublicIpOnLaunch,
     tags |-> [Name |-> name, subnetType |-> type]]

\* createSubnets with every subnet placed in the first zone of the list
createSubnetsFirstZone(p, type, offset, availabilityZones) ==
    [k \in 1..Len(availabilityZones) |->
        LET index == k - 1
            id == type \o "-Subnet-" \o ToString(index + 1)
        IN  CfnSubnet(id,
                      "10.0." \o ToString(16 * index + offset) \o ".0/20",
                      availabilityZones[1],
                      type = "Public",
                      p \o "_" \o id,
                      type)]

\* helper-based variant: availabilityZones.map((zone, index) => ...)
createSubnets(p, type, offset, availabilityZones) ==
    [k \in 1..Len(availabilityZones) |->
        LET index == k - 1
            id == type \o "-Subnet-" \o ToString(index + 1)
        IN  CfnSubnet(id,
                      "10.0." \o ToString(16 * index + offset) \o ".0/20",
                      availabilityZones[k],
                      type = "Public",
                      p \o "_" \o id,
                      type)]

\* createSubnet with the block computed from i + 1 instead of i
createSubnetOffByOne(p, type, offset, availabilityZones) ==
    [k \in 1..Len(availabilityZones) |->
        LET i == k - 1
            id == type \o "-Subnet-" \o ToString(i + 1)
        IN  CfnSubnet(id,
                      "10.0." \o ToString(16 * (i + 1) + offset) \o ".0/20",
                      availabilityZones[k],
                      TRUE,
                      p \o "_" \o id,
                      type)]

\* helper-method variant: a for loop pushing onto subnets
createSubnet(p, type, offset, availabilityZones) ==
    [k \in 1..Len(availabilityZones) |->
        LET i == k - 1
            id == type \o "-Subnet-" \o ToString(i + 1)
        IN  CfnSubnet(id,
                      "10.0." \o ToString(16 * i + offset) \o ".0/20",
                      availabilityZones[k],
                      TRUE,
                      p \o "_" \o id,
                      type)]

\* inline variant: the loop over the public subnets
inlinePublicSubnets(p, availabilityZones) ==
    [k \in 1..Len(availabilityZones) |->
        LET i == k - 1
            id == "Public-Subnet-" \o ToString(i + 1)
        IN  CfnSubnet(id,
                      "10.0." \o ToString(16 * i) \o ".0/20",
                      availabilityZones[k],
                      TRUE,
                      p \o "_" \o id,
                      "Public")]

\* inlinePrivateSubnets with the private blocks moved to offset 64
inlinePrivateSubnetsOffset64(p, availabilityZones) ==
    [k \in 1..Len(availabilityZones) |->
        LET i == k - 1
            id == "Private-Subnet-" \o ToString(i + 1)
        IN  CfnSubnet(id,
                      "10.0." \o ToString(16 * i + 64) \o ".0/20",
                      availabilityZones[k],
                      FALSE,
                      p \o "_" \o id,
                      "Private")]

\* inline variant: the loop over the private subnets
inlinePrivateSubnets(p, availabilityZones) ==
    [k \in 1..Len(availabilityZones) |->
        LET i == k - 1
            id == "Private-Subnet-" \o ToString(i + 1)
        IN  CfnSubnet(id,
                      "10.0." \o ToString(16 * i + 48) \o ".0/20",
                      availabilityZones[k],
                      FALSE,
                      p \o "_" \o id,
                      "Private")]

\* single-stack variant: the loop over the public subnets
singlePublicSubnets(p, availabilityZones) ==
    [k \in 1..Len(availabilityZones) |->
        LET i == k - 1
            id == "Public-Subnet-" \o ToString(i + 1)
        IN  CfnSubnet(id,
                      "10.0." \o ToString(16 * i) \o ".0/20",
                      availabilityZones[k],
                      TRUE,
                      p \o "_" \o id,
                      "Public")]

\* single-stack variant: the loop over the private subnets
singlePrivateSubnets(p, availabilityZones) ==
    [k \in 1..Len(availabilityZones) |->
        LET i == k - 1
            id == "Private-Subnet-" \o ToString(i + 1)
        IN  CfnSubnet(id,
                      "10.0." \o ToString(16 * i + 48) \o ".0/20",
                      availabilityZones[k],
                      FALSE,
                      p \o "_" \o id,
                      "Private")]

NetVariants == {"helper", "inline", "method", "single"}

\* helperSubnets with the private offset 32 instead of 48
helperSubnetsOffset32(p, availabilityZones) ==
    [publicSubnets |-> createSubnets(p, "Public", 0, availabilityZones),
     privateSubnets |-> createSubnets(p, "Private", 32, availabilityZones)]

\* the constructor's subnet creation: public subnets, then private subnets
helperSubnets(p, availabilityZones) ==
    [publicSubnets |-> createSubnets(p, "Public", 0, availabilityZones),
     privateSubnets |-> createSubnets(p, "Private", 48, availabilityZones)]

methodSubnets(p, availabilityZones) ==
    [publicSubnets |-> createSubnet(p, "Public", 0, availabilityZones),
     privateSubnets |-> createSubnet(p, "Private", 48, availabilityZones)]

inlineSubnets(p, availabilityZones) ==
    [publicSubnets |-> inlinePublicSubnets(p, availabilityZones),
     privateSubnets |-> inlinePrivateSubnets(p, availabilityZones)]

singleSubnets(p, availabilityZones) ==
    [publicSubnets |-> singlePublicSubnets(p, availabilityZones),
     privateSubnets |-> singlePrivateSubnets(p, availabilityZones)]

SubnetCreation(variant, p, availabilityZones) ==
    CASE variant = "helper" -> helperSubnets(p, availabilityZones)
      [] variant = "method" -> methodSubnets(p, availabilityZones)
      [] variant = "inline" -> inlineSubnets(p, availabilityZones)
      [] variant = "single" -> singleSubnets(p, availabilityZones)

(***************************************************************************)
(* Network Foundation: gateway, route tables, routes and endpoints.        *)
(***************************************************************************)
Ref(resource) == resource.id

\* the internet gateway and its attachment to the VPC
createInternetGateway(p, vpc) ==
    [igw |-> [id |-> "InternetGateway",
              tags |-> [Name |-> p \o "-InternetGateway"]],
     attachment |-> [id |-> "VPCGatewayAttachment",
                     vpcId |-> Ref(vpc),
                     internetGatewayId |-> "InternetGateway"]]

\* SubnetAssociations with the first subnet of the list left out
SubnetAssociationsSkipFirst(type, subnets, routeTableId) ==
    [k \in 1..(Len(subnets) - 1) |->
        [id |-> type \o "SubnetAssociation-" \o ToString(k),
         subnetId |-> Ref(subnets[k + 1]),
         routeTableId |-> routeTableId]]

\* subnets.forEach((subnet, index) => new CfnSubnetRouteTableAssociation(...))
SubnetAssociations(type, subnets, routeTableId) ==
    [k \in 1..Len(subnets) |->
        [id |-> type \o "SubnetAssociation-" \o ToString(k - 1),
         subnetId |-> Ref(subnets[k]),
         routeTableId |-> routeTableId]]

\* helper variants: a route table and one association per subnet
createRouteTable(p, type, subnets) ==
    LET routeTable == [id |-> p \o "-" \o type \o "RouteTable",
                       tags |-> [Name |-> p \o "-" \o type \o "RouteTable"]]
    IN  [routeTable |-> routeTable,
         associations |-> SubnetAssociations(type, subnets, Ref(routeTable))]

\* inline variants: the route table alone, associated further down
inlineRouteTable(p, type) ==
    [id |-> type \o "RouteTable",
     tags |-> [Name |-> p \o "-" \o type \o "RouteTable"]]

\* createPublicRoutes with the route put on the private route table
createPublicRoutesOnPrivate(publicRouteTable, igw) ==
    [id |-> "DefaultRoute",
     routeTableId |-> "PrivateRouteTable",
     destinationCidrBlock |-> "0.0.0.0/0",
     gatewayId |-> Ref(igw)]

\* the default route of the public route table
createPublicRoutes(publicRouteTable, igw) ==
    [id |-> "DefaultRoute",
     routeTableId |-> Ref(publicRouteTable),
     destinationCidrBlock |-> "0.0.0.0/0",
     gatewayId |-> Ref(igw)]

VPCEndpointSG ==
    [id |-> "VPCEndpointSG",
     allowAllOutbound |-> TRUE,
     ingress |-> {[peer |-> "0.0.0.0/0", port |-> "ALL"]}]

ServiceName(e, service) ==
    "com.amazonaws." \o Interpolate(e, "CDK_DEFAULT_REGION") \o "." \o service

GatewayEndpoint(e, privateRouteTable) ==
    [id |-> "S3Endpoint",
     serviceName |-> ServiceName(e, "s3"),
     vpcEndpointType |-> "Gateway",
     privateDnsEnabled |-> FALSE,
     subnetIds |-> <<>>,
     securityGroupIds |-> <<>>,
     routeTableIds |-> <<Ref(privateRouteTable)>>]

InterfaceEndpoint(e, id, service, privateSubnets) ==
    [id |-> id,
     serviceName |-> ServiceName(e, service),
     vpcEndpointType |-> "Interface",
     privateDnsEnabled |-> TRUE,
     subnetIds |-> [k \in 1..Len(privateSubnets) |-> Ref(privateSubnets[k])],
     securityGroupIds |-> <<Ref(VPCEndpointSG)>>,
     routeTableIds |-> <<>>]

\* helper-based variant: S3, then the four interface endpoints
createVPCEndpoints(e, privateRouteTable, privateSubnets) ==
    <<GatewayEndpoint(e, privateRouteTable),
      InterfaceEndpoint(e, "ECREndpointEndpoint", "ecr.dkr", privateSubnets),
      InterfaceEndpoint(e, "ECRApiEndpointEndpoint", "ecr.api", privateSubnets),
      InterfaceEndpoint(e, "CloudWatchLogsEndpointEndpoint", "logs", privateSubnets),
      InterfaceEndpoint(e, "SSMEndpointEndpoint", "ssm", privateSubnets)>>

\* helper-method variant: S3, then three interface endpoints
methodEndpoints(e, privateRouteTable, privateSubnets) ==
    <<GatewayEndpoint(e, privateRouteTable),
      InterfaceEndpoint(e, "ECREndpointEndpoint", "ecr.dkr", privateSubnets),
      InterfaceEndpoint(e, "ECRApiEndpointEndpoint", "ecr.api", privateSubnets),
      InterfaceEndpoint(e, "CloudWatchLogsEndpointEndpoint", "logs", privateSubnets)>>

\* inline and single-stack variants: ECR, ECR API, S3, CloudWatch Logs
inlineEndpoints(e, privateRouteTable, privateSubnets) ==
    <<InterfaceEndpoint(e, "ECREndpoint", "ecr.dkr", privateSubnets),
      InterfaceEndpoint(e, "ECRApiEndpoint", "ecr.api", privateSubnets),
      GatewayEndpoint(e, privateRouteTable),
      InterfaceEndpoint(e, "CloudWatchLogsEndpoint", "logs", privateSubnets)>>

(***************************************************************************)
(* Network Foundation: the constructors.                                   *)
(***************************************************************************)
NetworkStack(variant, vpc, subnets, gateway, publicRouteTable, privateRouteTable, associations, routes, endpoints, output) ==
    [variant |-> variant,
     vpc |-> vpc,
     publicSubnets |-> subnets.publicSubnets,
     privateSubnets |-> subnets.privateSubnets,
     internetGateway |-> gateway.igw,
     gatewayAttachments |-> <<gateway.attachment>>,
     publicRouteTable |-> publicRouteTable,
     privateRouteTable |-> privateRouteTable,
     associations |-> associations,
     routes |-> routes,
     securityGroups |-> <<VPCEndpointSG>>,
     endpoints |-> endpoints,
     outputs |-> <<output>>]

\* helper-based variant
VPCStackHelper(e, p, azs) ==
    LET vpc == createVPC(p, azs)
        subnets == helperSubnets(p, vpc.availabilityZones)
        gateway == createInternetGateway(p, vpc)
        public == createRouteTable(p, "Public", subnets.publicSubnets)
        private == createRouteTable(p, "Private", subnets.privateSubnets)
    IN  NetworkStack("helper", vpc, subnets, gateway,
                     public.routeTable, private.routeTable,
                     public.associations \o private.associations,
                     <<createPublicRoutes(public.routeTable, gateway.igw)>>,
                     createVPCEndpoints(e, private.routeTable, subnets.privateSubnets),
                     [id |-> "VPCID", value |-> Ref(vpc)])

\* helper-method variant
VPCStackMethod(e, p, azs) ==
    LET vpc == createVPC(p, azs)
        subnets == methodSubnets(p, vpc.availabilityZones)
        gateway == createInternetGateway(p, vpc)
        public == createRouteTable(p, "Public", subnets.publicSubnets)
        private == createRouteTable(p, "Private", subnets.privateSubnets)
    IN  NetworkStack("method", vpc, subnets, gateway,
                     public.routeTable, private.routeTable,
                     public.associations \o private.associations,
                     <<createPublicRoutes(public.routeTable, gateway.igw)>>,
                     methodEndpoints(e, private.routeTable, subnets.privateSubnets),
                     [id |-> "VPCID", value |-> Ref(vpc)])

\* inline variant: private associations are declared before public ones
VPCStackInline(e, p, azs) ==
    LET vpc == createVPC(p, azs)
        subnets == inlineSubnets(p, vpc.availabilityZones)
        gateway == createInternetGateway(p, vpc)
        publicRouteTable == inlineRouteTable(p, "Public")
        privateRouteTable == inlineRouteTable(p, "Private")
    IN  NetworkStack("inline", vpc, subnets, gateway,
                     publicRouteTable, privateRouteTable,
                     SubnetAssociations("Private", subnets.privateSubnets,
                                        Ref(privateRouteTable))
                       \o SubnetAssociations("Public", subnets.publicSubnets,
                                             Ref(publicRouteTable)),
                     <<createPublicRoutes(publicRouteTable, gateway.igw)>>,
                     inlineEndpoints(e, privateRouteTable, subnets.privateSubnets),
                     [id |-> "VPCID", value |-> Ref(vpc)])

\* single-stack variant: the network part of EcsBoilerplateStack, which
\* reads the project name from the environment with no fallback
VPCStackSingle(e, azs) ==
    LET p == Interpolate(e, "PROJECT_NAME")
        vpc == createVPC(p, azs)
        subnets == singleSubnets(p, vpc.availabilityZones)
        gateway == createInternetGateway(p, vpc)
        publicRouteTable == inlineRouteTable(p, "Public")
        privateRouteTable == inlineRouteTable(p, "Private")
    IN  NetworkStack("single", vpc, subnets, gateway,
                     publicRouteTable, privateRouteTable,
                     SubnetAssociations("Private", subnets.privateSubnets,
                                        Ref(privateRouteTable))
                       \o SubnetAssociations("Public", subnets.publicSubnets,
                                             Ref(publicRouteTable)),
                     <<createPublicRoutes(publicRouteTable, gateway.igw)>>,
                     inlineEndpoints(e, privateRouteTable, subnets.privateSubnets),
                     [id |-> "VPC_Id", value |-> Ref(vpc)])

VPCStack(variant, e, p, azs) ==
    CASE variant = "helper" -> VPCStackHelper(e, p, azs)
      [] variant = "method" -> VPCStackMethod(e, p, azs)
      [] variant = "inline" -> VPCStackInline(e, p, azs)
      [] variant = "single" -> VPCStackSingle(e, azs)

\* every subnet the network declares
DeclaredSubnets(stack) ==
    Range(stack.publicSubnets) \cup Range(stack.privateSubnets)

NoStack == [variant |-> "none"]

(***************************************************************************)
(* Data Store.                                                             *)
(***************************************************************************)
Refs(subnets) == [k \in 1..Len(subnets) |-> Ref(subnets[k])]

\* new cdk.aws_ssm.StringParameter(this, id, {...})
createSSMParameter(parameterName, value, id) ==
    [id |-> id,
     parameterName |-> parameterName,
     stringValue |-> value,
     dataType |-> "text"]

\* database.secret!.secretValueFromJson(key)!.unsafeUnwrap()
getDatabaseSecret(database, key) ==
    "{{resolve:secretsmanager:" \o database.secret \o ":" \o key \o "}}"

createRdsSecurityGroup(network) ==
    [id |-> "RDSSecurityGroup",
     allowAllOutbound |-> TRUE,
     ingress |-> {[peer |-> network.vpc.vpcCidrBlock, port |-> "tcp/3306"]}]

\* lib/database.ts: the instance, with its own security group
createDatabase(network) ==
    [id |-> "Database",
     databaseName |-> "testdb",
     subnetIds |-> Refs(network.privateSubnets),
     subnetGroupSubnetIds |-> Refs(network.privateSubnets),
     securityGroups |-> <<createRdsSecurityGroup(network)>>,
     publiclyAccessible |-> FALSE,
     multiAz |-> FALSE,
     secret |-> "DatabaseSecret",
     dbInstanceEndpointAddress |-> "Database.Endpoint.Address",
     dbInstanceEndpointPort |-> "Database.Endpoint.Port"]

\* the variant with parameter fields: no securityGroups property is given,
\* and the DatabaseInstance construct then declares a security group of its
\* own, to which no ingress rule is ever added
fieldsDatabase(p, network) ==
    [id |-> "Database",
     databaseName |-> p,
     subnetIds |-> Refs(network.privateSubnets),
     subnetGroupSubnetIds |-> Refs(network.privateSubnets),
     securityGroups |-> <<[id |-> "SecurityGroup",
                           allowAllOutbound |-> TRUE,
                           ingress |-> {}]>>,
     publiclyAccessible |-> FALSE,
     multiAz |-> FALSE,
     secret |-> "DatabaseSecret",
     dbInstanceEndpointAddress |-> "Database.Endpoint.Address",
     dbInstanceEndpointPort |-> "Database.Endpoint.Port"]

\* lib/database.ts
DatabaseStackLib(p, network) ==
    LET database == createDatabase(network)
    IN  [variant |-> "lib",
         database |-> database,
         parameters |->
            <<createSSMParameter("/" \o p \o "/rds/host",
                                 database.dbInstanceEndpointAddress, "RDSHOST"),
              createSSMParameter("/" \o p \o "/rds/user",
                                 getDatabaseSecret(database, "username"), "RDSUSER"),
              createSSMParameter("/" \o p \o "/rds/pass",
                                 getDatabaseSecret(database, "password"), "RDSPASS")>>]

\* DatabaseStackFields declaring the host parameter a second time
DatabaseStackFieldsHostTwice(p, network) ==
    LET database == fieldsDatabase(p, network)
    IN  [variant |-> "fields",
         database |-> database,
         parameters |->
            <<createSSMParameter("/" \o p \o "/rds/host",
                                 database.dbInstanceEndpointAddress, "RDSHOST"),
              createSSMParameter("/" \o p \o "/rds/port",
                                 database.dbInstanceEndpointPort, "RDSPORT"),
              createSSMParameter("/" \o p \o "/rds/user",
                                 getDatabaseSecret(database, "username"), "RDSUSER"),
              createSSMParameter("/" \o p \o "/rds/host",
                                 getDatabaseSecret(database, "password"), "RDSPASS")>>]

\* the variant that keeps the four parameters in fields
DatabaseStackFields(p, network) ==
    LET database == fieldsDatabase(p, network)
    IN  [variant |-> "fields",
         database |-> database,
         parameters |->
            <<createSSMParameter("/" \o p \o "/rds/host",
                                 database.dbInstanceEndpointAddress, "RDSHOST"),
              createSSMParameter("/" \o p \o "/rds/port",
                                 database.dbInstanceEndpointPort, "RDSPORT"),
              createSSMParameter("/" \o p \o "/rds/user",
                                 getDatabaseSecret(database, "username"), "RDSUSER"),
              createSSMParameter("/" \o p \o "/rds/pass",
                                 getDatabaseSecret(database, "password"), "RDSPASS")>>]

DbVariants == {"lib", "fields"}

DatabaseStack(variant, p, network) ==
    CASE variant = "lib" -> DatabaseStackLib(p, network)
      [] variant = "fields" -> DatabaseStackFields(p, network)

ParameterNames(stack) == {stack.parameters[k].parameterName : k \in DOMAIN stack.parameters}

(***************************************************************************)
(* Release Pipeline: artifacts, actions and stages.  An artifact is the    *)
(* object `new Artifact()` bound to a constant of the constructor; it is   *)
(* named here by that constant.                                            *)
(***************************************************************************)
createPipelineArtifacts == [sourceOutput |-> "sourceOutput", buildOutput |-> "buildOutput"]

createECRSourceAction(sourceOutput) ==
    [actionName |-> "ECR_Source",
     category |-> "Source",
     imageTag |-> "latest",
     inputs |-> {},
     outputs |-> {sourceOutput}]

createBuildAction(sourceOutput, buildOutput) ==
    [actionName |-> "Build",
     category |-> "Build",
     inputs |-> {sourceOutput},
     outputs |-> {buildOutput}]

createManualApprovalAction ==
    [actionName |-> "ManualApproval",
     category |-> "Approval",
     runOrder |-> 1,
     inputs |-> {},
     outputs |-> {}]

\* appSpecTemplateInput and taskDefinitionTemplateInput: each a list of at
\* most one artifact, empty when the property is not given
createDeployAction(appSpecTemplateInput, taskDefinitionTemplateInput) ==
    [actionName |-> "ECS_Deploy",
     category |-> "Deploy",
     appSpecTemplateInput |-> appSpecTemplateInput,
     taskDefinitionTemplateInput |-> taskDefinitionTemplateInput,
     inputs |-> Range(appSpecTemplateInput) \cup Range(taskDefinitionTemplateInput),
     outputs |-> {}]

\* Stage with automatic retry declared for a failed stage
StageRetryOnFailure(stageName, action) ==
    [stageName |-> stageName, actions |-> <<action>>, onFailure |-> "RETRY"]

\* {stageName, actions}: no onFailure property, so a failed stage is left failed
Stage(stageName, action) ==
    [stageName |-> stageName, actions |-> <<action>>, onFailure |-> "FAIL"]

\* createPipeline with the Approval stage placed last, after the Deploy stage
createPipelineApprovalLast(p, sourceAction, approvalAction, buildAction, deployAction) ==
    [id |-> "EcsPipeline",
     pipelineName |-> p \o "-Pipeline",
     stages |-> <<Stage("Source", sourceAction),
                  Stage("Build", buildAction),
                  Stage("Deploy", deployAction),
                  Stage("Approval", approvalAction)>>,
     restartExecutionOnUpdate |-> TRUE]

\* createPipeline with the Deploy stage placed before the Build stage
createPipelineDeployBeforeBuild(p, sourceAction, approvalAction, buildAction, deployAction) ==
    [id |-> "EcsPipeline",
     pipelineName |-> p \o "-Pipeline",
     stages |-> <<Stage("Source", sourceAction),
                  Stage("Approval", approvalAction),
                  Stage("Deploy", deployAction),
                  Stage("Build", buildAction)>>,
     restartExecutionOnUpdate |-> TRUE]

\* helper variant: Source, Approval, Build, Deploy
createPipeline(p, sourceAction, approvalAction, buildAction, deployAction) ==
    [id |-> "EcsPipeline",
     pipelineName |-> p \o "-Pipeline",
     stages |-> <<Stage("Source", sourceAction),
                  Stage("Approval", approvalAction),
                  Stage("Build", buildAction),
                  Stage("Deploy", deployAction)>>,
     restartExecutionOnUpdate |-> TRUE]

\* inlinePipeline with the Build stage placed before the Approval stage
inlinePipelineBuildFirst(p, sourceAction, approvalAction, buildAction, deployAction) ==
    [id |-> "EcsPipeline",
     pipelineName |-> p \o "-Pipeline",
     stages |-> <<Stage("Source", sourceAction),
                  Stage("Build", buildAction),
                  Stage("Approval", approvalAction),
                  Stage("Deploy", deployAction)>>,
     restartExecutionOnUpdate |-> FALSE]

\* inline variants with a build stage: Source, Approval, Build, Deploy
inlinePipeline(p, sourceAction, approvalAction, buildAction, deployAction) ==
    [id |-> "EcsPipeline",
     pipelineName |-> p \o "-Pipeline",
     stages |-> <<Stage("Source", sourceAction),
                  Stage("Approval", approvalAction),
                  Stage("Build", buildAction),
                  Stage("Deploy", deployAction)>>,
     restartExecutionOnUpdate |-> FALSE]

\* variants with no build stage: Source, Deploy
sourceDeployPipeline(p, sourceAction, deployAction) ==
    [id |-> "EcsPipeline",
     pipelineName |-> p \o "-Pipeline",
     stages |-> <<Stage("Source", sourceAction),
                  Stage("Deploy", deployAction)>>,
     restartExecutionOnUpdate |-> FALSE]

StageNames(pipeline) == [k \in DOMAIN pipeline.stages |-> pipeline.stages[k].stageName]

HasStage(pipeline, name) == name \in Range(StageNames(pipeline))

(***************************************************************************)
(* Compute/Serving.                                                        *)
(***************************************************************************)
ApplicationTargetGroup(id) ==
    [id |-> id, protocol |-> "HTTP", port |-> 80, targetType |-> "ip",
     healthCheck |-> [path |-> "/", interval |-> 30]]

\* listener.addTargetGroups(id, {targetGroups})
addTargetGroups(listener, targetGroups) ==
    [listener EXCEPT !.targetGroups = @ \o Refs(targetGroups)]

\* attachToApplicationTargetGroup attaching the green target group
attachToGreenTargetGroup(service, targetGroup) ==
    [service EXCEPT !.targetGroups = @ \o <<"GreenTargetGroup">>]

\* service.attachToApplicationTargetGroup(targetGroup)
attachToApplicationTargetGroup(service, targetGroup) ==
    [service EXCEPT !.targetGroups = @ \o <<Ref(targetGroup)>>]

\* createCodeDeployDeploymentGroup with the blue target group given as the
\* green one too
createCodeDeployDeploymentGroupOnePool(p, service, blueTargetGroup, greenTargetGroup, listener) ==
    [id |-> "DeploymentGroup",
     deploymentGroupName |-> p \o "_DeploymentGroup",
     application |-> p \o "_CodeDeployApplication",
     service |-> Ref(service),
     autoRollback |-> [failedDeployment |-> TRUE],
     blueTargetGroup |-> Ref(blueTargetGroup),
     greenTargetGroup |-> Ref(blueTargetGroup),
     listener |-> Ref(listener),
     terminationWaitTime |-> 60,
     deploymentApprovalWaitTime |-> 10]

\* createCodeDeployDeploymentGroup with no automatic rollback
createCodeDeployDeploymentGroupNoRollback(p, service, blueTargetGroup, greenTargetGroup, listener) ==
    [id |-> "DeploymentGroup",
     deploymentGroupName |-> p \o "_DeploymentGroup",
     application |-> p \o "_CodeDeployApplication",
     service |-> Ref(service),
     autoRollback |-> [failedDeployment |-> FALSE],
     blueTargetGroup |-> Ref(blueTargetGroup),
     greenTargetGroup |-> Ref(greenTargetGroup),
     listener |-> Ref(listener),
     terminationWaitTime |-> 60,
     deploymentApprovalWaitTime |-> 10]

\* new cdk.aws_codedeploy.EcsDeploymentGroup(...)
createCodeDeployDeploymentGroup(p, service, blueTargetGroup, greenTargetGroup, listener) ==
    [id |-> "DeploymentGroup",
     deploymentGroupName |-> p \o "_DeploymentGroup",
     application |-> p \o "_CodeDeployApplication",
     service |-> Ref(service),
     autoRollback |-> [failedDeployment |-> TRUE],
     blueTargetGroup |-> Ref(blueTargetGroup),
     greenTargetGroup |-> Ref(greenTargetGroup),
     listener |-> Ref(listener),
     terminationWaitTime |-> 60,
     deploymentApprovalWaitTime |-> 10]

\* new ApplicationLoadBalancer(this, "ALB", ...) with the security group added
\* to it
Alb(p, network) ==
    [id |-> "ALB",
     loadBalancerName |-> p \o "-ALB",
     internetFacing |-> TRUE,
     subnetIds |-> Refs(network.publicSubnets),
     securityGroups |-> <<[id |-> "ALBSecurityGroup",
                           allowAllOutbound |-> TRUE,
                           ingress |-> {[peer |-> "0.0.0.0/0", port |-> "tcp/80"]}]>>]

\* FargateService with the tasks placed in the public subnets
FargateServiceInPublicSubnets(p, network) ==
    [id |-> "Service",
     serviceName |-> p \o "_Service",
     desiredCount |-> 1,
     deploymentController |-> "CODE_DEPLOY",
     assignPublicIp |-> FALSE,
     subnetIds |-> Refs(network.publicSubnets),
     securityGroups |-> <<[id |-> "ServiceSecurityGroup",
                           allowAllOutbound |-> TRUE,
                           ingress |-> {[peer |-> network.vpc.vpcCidrBlock,
                                         port |-> "ALL"]}]>>,
     targetGroups |-> <<>>]

\* new cdk.aws_ecs.FargateService(this, "Service", ...) with its security group
FargateService(p, network) ==
    [id |-> "Service",
     serviceName |-> p \o "_Service",
     desiredCount |-> 1,
     deploymentController |-> "CODE_DEPLOY",
     assignPublicIp |-> FALSE,
     subnetIds |-> Refs(network.privateSubnets),
     securityGroups |-> <<[id |-> "ServiceSecurityGroup",
                           allowAllOutbound |-> TRUE,
                           ingress |-> {[peer |-> network.vpc.vpcCidrBlock,
                                         port |-> "ALL"]}]>>,
     targetGroups |-> <<>>]

\* Names.uniqueId: the name a construct gives a resource whose name property is
\* not given, made of the ids on the construct's path
UniqueId(stackId, id) == stackId \o id

\* new FargateTaskDefinition(...): no family is given; no container yet
FargateTaskDefinition ==
    [id |-> "TaskDefinition",
     family |-> UniqueId("ECSStack", "TaskDefinition"),
     cpu |-> 256,
     memoryLimitMiB |-> 512,
     executionRole |-> "FargateExecutionRole",
     taskRole |-> "FargateTaskRole",
     containers |-> <<>>]

\* taskDefinition.addContainer("Container", {...}): the options hold an
\* environment and no `secrets` property, so the container has no secret
\* binding
addContainer(taskDefinition, image, logging) ==
    [taskDefinition EXCEPT !.containers =
        @ \o <<[id |-> "Container",
                image |-> image,
                portMappings |-> <<[containerPort |-> 80]>>,
                environment |-> [PORT |-> "80"],
                secrets |-> <<>>,
                logging |-> logging]>>]

TaskDefinition(image, logging) == addContainer(FargateTaskDefinition, image, logging)

\* the variable a compute variant reads its registry reference from
RegistryVariable(variant) == IF variant = "single" THEN "ECR_URI" ELSE "ECR_ARN"

\* what reading the registry reference does.  Repository.fromRepositoryArn
\* splits its argument and throws on `undefined`; ContainerImage.fromRegistry
\* keeps what it is given, and whether the container built from `undefined`
\* is rejected is left open
RegistryOutcomes(variant, e) ==
    IF IsSet(e, RegistryVariable(variant)) THEN {"declared"}
    ELSE IF variant = "single" THEN {"throws", "declared"}
    ELSE {"throws"}

\* the resources a compute constructor has declared when it reaches the
\* registry reference: the cluster, the two roles and the task definition
ECSStackAborted(variant, p) ==
    [variant |-> "aborted",
     of |-> variant,
     cluster |-> [id |-> "Cluster", clusterName |-> p \o "-cluster"],
     roles |-> <<"FargateExecutionRole", "FargateTaskRole">>,
     taskDefinition |-> FargateTaskDefinition]

ComputeStack(variant, p, taskDefinition, alb, listener, blueTargetGroup, greenTargetGroup, service, scaling, deploymentGroups, pipelines) ==
    [variant |-> variant,
     cluster |-> [id |-> "Cluster", clusterName |-> p \o "-cluster"],
     taskDefinition |-> taskDefinition,
     alb |-> alb,
     listener |-> listener,
     blueTargetGroup |-> blueTargetGroup,
     greenTargetGroup |-> greenTargetGroup,
     service |-> service,
     scaling |-> scaling,
     deploymentGroups |-> deploymentGroups,
     pipelines |-> pipelines]

\* lib/ecs.ts, first class: the service with its scaling policy
ECSStackScaled(e, p, network) ==
    LET blueTargetGroup == ApplicationTargetGroup("BlueTargetGroup")
        greenTargetGroup == ApplicationTargetGroup("GreenTargetGroup")
        listener == addTargetGroups([id |-> "Listener", port |-> 80, targetGroups |-> <<>>],
                                    <<blueTargetGroup>>)
        service == attachToApplicationTargetGroup(FargateService(p, network),
                                                  blueTargetGroup)
    IN  ComputeStack("scaled", p,
                     TaskDefinition(Lookup(e, "ECR_ARN"), <<p \o "-logs">>),
                     Alb(p, network), listener, blueTargetGroup, greenTargetGroup,
                     service,
                     <<[minCapacity |-> 1, maxCapacity |-> 4,
                        cpuTargetUtilizationPercent |-> 50,
                        memoryTargetUtilizationPercent |-> 70]>>,
                     <<>>, <<>>)

\* lib/ecs.ts, second class: the service, its deployment group and a
\* Source, Deploy pipeline in one stack
ECSStackPipeline(e, p, network) ==
    LET blueTargetGroup == ApplicationTargetGroup("BlueTargetGroup")
        greenTargetGroup == ApplicationTargetGroup("GreenTargetGroup")
        listener == addTargetGroups([id |-> "Listener", port |-> 80, targetGroups |-> <<>>],
                                    <<blueTargetGroup>>)
        created == FargateService(p, network)
        deploymentGroup == createCodeDeployDeploymentGroup(
                               p, created, blueTargetGroup, greenTargetGroup, listener)
        service == attachToApplicationTargetGroup(created, blueTargetGroup)
        sourceOutput == "sourceOutput"
    IN  ComputeStack("pipeline", p, TaskDefinition(Lookup(e, "ECR_ARN"), <<>>),
                     Alb(p, network), listener, blueTargetGroup, greenTargetGroup,
                     service, <<>>, <<deploymentGroup>>,
                     <<sourceDeployPipeline(
                           p,
                           createECRSourceAction(sourceOutput),
                           createDeployAction(<<sourceOutput>>, <<sourceOutput>>))>>)

\* single-stack variant: the compute part of EcsBoilerplateStack
ECSStackSingle(e, network) ==
    LET p == Interpolate(e, "PROJECT_NAME")
        blueTargetGroup == ApplicationTargetGroup("BlueTargetGroup")
        greenTargetGroup == ApplicationTargetGroup("GreenTargetGroup")
        listener == addTargetGroups([id |-> "Listener", port |-> 80, targetGroups |-> <<>>],
                                    <<blueTargetGroup>>)
        created == FargateService(p, network)
        deploymentGroup == createCodeDeployDeploymentGroup(
                               p, created, blueTargetGroup, greenTargetGroup, listener)
        service == attachToApplicationTargetGroup(created, blueTargetGroup)
    IN  ComputeStack("single", p, TaskDefinition(Lookup(e, "ECR_URI"), <<>>),
                     Alb(p, network), listener, blueTargetGroup, greenTargetGroup,
                     service, <<>>, <<deploymentGroup>>, <<>>)

EcsVariants == {"scaled", "pipeline", "single"}

ECSStack(variant, e, p, network) ==
    CASE variant = "scaled" -> ECSStackScaled(e, p, network)
      [] variant = "pipeline" -> ECSStackPipeline(e, p, network)
      [] variant = "single" -> ECSStackSingle(e, network)

(***************************************************************************)
(* Release Pipeline: the build projects.  A command of a build             *)
(* specification is the list of its lexical units: the quote characters,   *)
(* the redirections, the variable references, the JSON punctuation, the    *)
(* runs of spaces and the words between them.                              *)
(***************************************************************************)
\* the character "
DQ == "\""

\* the two characters \"
ESCDQ == "\\\""

\* the character '
SQ == "'"

\* createCodeBuildProject, helper variant: buildSpec.phases.build.commands
helperCommands ==
    <<<<"echo", " ", DQ, "const", " ", "fs", " ", "=", " ", "require(", SQ, "fs", SQ, ");", DQ, " ", ">", " ", "updateTaskDef.js">>,
      <<"echo", " ", DQ, "let", " ", "taskDef", " ", "=", " ", "JSON.parse(fs.readFileSync(", SQ, "taskdef.json", SQ, ",", " ", SQ, "utf8", SQ, "));", DQ, " ", ">>", " ", "updateTaskDef.js">>,
      <<"echo", " ", DQ, "taskDef", " ", "=", " ", "taskDef.taskDefinition;", DQ, " ", ">>", " ", "updateTaskDef.js">>,
      <<"echo", " ", DQ, "fs.writeFileSync(", SQ, "taskdef.json", SQ, ",", " ", "JSON.stringify(taskDef", ",", " ", "null", ",", " ", "2));", DQ, " ", ">>", " ", "updateTaskDef.js">>,
      <<"aws", " ", "ecs", " ", "describe-task-definition", " ", "--task-definition", " ", "$TASK_DEFINITION", " ", "--output", " ", "json", " ", ">", " ", "taskdef.json">>,
      <<"node", " ", "updateTaskDef.js">>,
      <<"echo", " ", DQ, "version", ":", " ", "0.0", DQ, " ", ">", " ", "appspec.yaml">>,
      <<"echo", " ", DQ, "Resources", ":", DQ, " ", ">>", " ", "appspec.yaml">>,
      <<"echo", " ", DQ, "  ", "-", " ", "TargetService", ":", DQ, " ", ">>", " ", "appspec.yaml">>,
      <<"echo", " ", DQ, "      ", "Type", ":", " ", "AWS", ":", ":", "ECS", ":", ":", "Service", DQ, " ", ">>", " ", "appspec.yaml">>,
      <<"echo", " ", DQ, "      ", "Properties", ":", DQ, " ", ">>", " ", "appspec.yaml">>,
      <<"echo", " ", DQ, "        ", "TaskDefinition", ":", " ", "<TASK_DEFINITION", ">", DQ, " ", ">>", " ", "appspec.yaml">>,
      <<"echo", " ", DQ, "        ", "LoadBalancerInfo", ":", DQ, " ", ">>", " ", "appspec.yaml">>,
      <<"echo", " ", DQ, "          ", "ContainerName", ":", " ", ESCDQ, "$CONTAINER_NAME", ESCDQ, DQ, " ", ">>", " ", "appspec.yaml">>,
      <<"echo", " ", DQ, "          ", "ContainerPort", ":", " ", "$CONTAINER_PORT", DQ, " ", ">>", " ", "appspec.yaml">>,
      <<"cat", " ", "taskdef.json">>,
      <<"cat", " ", "appspec.yaml">>>>

\* lib/deploy.ts, first class: buildSpec.phases.build.commands
nginxCommands ==
    <<<<"echo", " ", "Reading", " ", "JSON", " ", "input", " ", "from", " ", "ECR", " ", "output...">>,
      <<"export", " ", "IMAGE_URI=", "$", "(cat", " ", "$CODEBUILD_SOURCE_REPO_URL", "/imagedefinitions.json", " ", "|", " ", "jq", " ", "-r", " ", SQ, ".", "[", "0", "]", ".ImageURI", SQ, ")">>,
      <<"export", " ", "IMAGE_TAG=", "$", "(cat", " ", "$CODEBUILD_SOURCE_REPO_URL", "/imagedefinitions.json", " ", "|", " ", "jq", " ", "-r", " ", SQ, ".", "[", "0", "]", ".ImageTags", "[", "0", "]", SQ, ")">>,
      <<"export", " ", "IMAGE_DIGEST=", "$", "(cat", " ", "$CODEBUILD_SOURCE_REPO_URL", "/imagedefinitions.json", " ", "|", " ", "jq", " ", "-r", " ", SQ, ".", "[", "0", "]", ".ImageDigest", SQ, ")">>,
      <<"echo", " ", "Generating", " ", "appspec.yml...">>,
      <<"echo", " ", DQ, "version", ":", " ", "0.0", DQ, " ", ">", " ", "appspec.yml">>,
      <<"echo", " ", DQ, "Resources", ":", DQ, " ", ">>", " ", "appspec.yml">>,
      <<"echo", " ", DQ, "  ", "-", " ", "myEcsService", ":", DQ, " ", ">>", " ", "appspec.yml">>,
      <<"echo", " ", DQ, "      ", "Type", ":", " ", "AWS", ":", ":", "ECS", ":", ":", "Service", DQ, " ", ">>", " ", "appspec.yml">>,
      <<"echo", " ", DQ, "      ", "Properties", ":", DQ, " ", ">>", " ", "appspec.yml">>,
      <<"echo", " ", DQ, "        ", "TaskDefinition", ":", " ", "$TASK_DEFINITION_ARN", DQ, " ", ">>", " ", "appspec.yml">>,
      <<"echo", " ", DQ, "        ", "LoadBalancerInfo", ":", DQ, " ", ">>", " ", "appspec.yml">>,
      <<"echo", " ", DQ, "          ", "ContainerName", ":", " ", "nginx", DQ, " ", ">>", " ", "appspec.yml">>,
      <<"echo", " ", DQ, "          ", "ContainerPort", ":", " ", "80", DQ, " ", ">>", " ", "appspec.yml">>,
      <<"echo", " ", "Generating", " ", "taskdef.json...">>,
      <<"echo", " ", DQ, "[", DQ, " ", ">", " ", "taskdef.json">>,
      <<"echo", " ", DQ, "  ", "{", DQ, " ", ">>", " ", "taskdef.json">>,
      <<"echo", " ", DQ, "    ", ESCDQ, "family", ESCDQ, ":", " ", ESCDQ, "nginx-task", ESCDQ, ",", DQ, " ", ">>", " ", "taskdef.json">>,
      <<"echo", " ", DQ, "    ", ESCDQ, "containerDefinitions", ESCDQ, ":", " ", "[", DQ, " ", ">>", " ", "taskdef.json">>,
      <<"echo", " ", DQ, "      ", "{", DQ, " ", ">>", " ", "taskdef.json">>,
      <<"echo", " ", DQ, "        ", ESCDQ, "name", ESCDQ, ":", " ", ESCDQ, "nginx", DQ, ",", DQ, " ", ">>", " ", "taskdef.json">>,
      <<"echo", " ", DQ, "        ", ESCDQ, "image", ESCDQ, ":", " ", ESCDQ, "$IMAGE_URI", ":", "$IMAGE_TAG", DQ, ",", DQ, " ", ">>", " ", "taskdef.json">>,
      <<"echo", " ", DQ, "        ", ESCDQ, "memory", ESCDQ, ":", " ", "512", ",", DQ, " ", ">>", " ", "taskdef.json">>,
      <<"echo", " ", DQ, "        ", ESCDQ, "cpu", ESCDQ, ":", " ", "256", ",", DQ, " ", ">>", " ", "taskdef.json">>,
      <<"echo", " ", DQ, "        ", ESCDQ, "essential", ESCDQ, ":", " ", "true", ",", DQ, " ", ">>", " ", "taskdef.json">>,
      <<"echo", " ", DQ, "        ", ESCDQ, "portMappings", ESCDQ, ":", " ", "[", DQ, " ", ">>", " ", "taskdef.json">>,
      <<"echo", " ", DQ, "          ", "{", DQ, " ", ">>", " ", "taskdef.json">>,
      <<"echo", " ", DQ, "            ", ESCDQ, "containerPort", ESCDQ, ":", " ", "80", ",", DQ, " ", ">>", " ", "taskdef.json">>,
      <<"echo", " ", DQ, "            ", ESCDQ, "protocol", ESCDQ, ":", " ", ESCDQ, "tcp", ESCDQ, DQ, " ", ">>", " ", "taskdef.json">>,
      <<"echo", " ", DQ, "          ", "}", DQ, " ", ">>", " ", "taskdef.json">>,
      <<"echo", " ", DQ, "        ", "]", DQ, " ", ">>", " ", "taskdef.json">>,
      <<"echo", " ", DQ, "      ", "}", DQ, " ", ">>", " ", "taskdef.json">>,
      <<"echo", " ", DQ, "    ", "]", DQ, " ", ">>", " ", "taskdef.json">>,
      <<"echo", " ", DQ, "  ", "}", DQ, " ", ">>", " ", "taskdef.json">>,
      <<"echo", " ", DQ, "]", DQ, " ", ">>", " ", "taskdef.json">>>>

\* lib/ecs_boilerplate-stack.ts, first DeployStack: buildSpec.phases.build.commands
appspecCommands ==
    <<<<"echo", " ", "Creating", " ", "appspec.yml">>,
      <<"echo", " ", DQ, "version", ":", " ", "0.0", DQ, " ", ">", " ", "appspec.yml">>,
      <<"echo", " ", DQ, "Resources", ":", DQ, " ", ">>", " ", "appspec.yml">>,
      <<"echo", " ", DQ, "  ", "myEcsService", ":", DQ, " ", ">>", " ", "appspec.yml">>,
      <<"echo", " ", DQ, "    ", "Type", ":", " ", "AWS", ":", ":", "CodeDeploy", ":", ":", "ECS", ":", ":", "DeploymentGroup", DQ, " ", ">>", " ", "appspec.yml">>,
      <<"echo", " ", DQ, "    ", "Properties", ":", DQ, " ", ">>", " ", "appspec.yml">>,
      <<"echo", " ", DQ, "      ", "TaskDefinition", ":", " ", "$TASK_DEFINITION_ARN", DQ, " ", ">>", " ", "appspec.yml">>,
      <<"echo", " ", DQ, "      ", "LoadBalancerInfo", ":", DQ, " ", ">>", " ", "appspec.yml">>,
      <<"echo", " ", DQ, "        ", "ContainerName", ":", " ", "$CONTAINER_NAME", DQ, " ", ">>", " ", "appspec.yml">>,
      <<"echo", " ", DQ, "        ", "ContainerPort", ":", " ", "$CONTAINER_PORT", DQ, " ", ">>", " ", "appspec.yml">>>>

\* lib/ecs_boilerplate-stack.ts, second DeployStack: buildSpec.phases.build.commands
taskdefCommands ==
    <<<<"IMAGE_URL=", "$", "(jq", " ", "-r", " ", SQ, ".ImageURI", SQ, " ", "imageDetail.json)">>,
      <<"echo", " ", DQ, "{", DQ, " ", ">", " ", "taskdef.json">>,
      <<"echo", " ", DQ, "  ", DQ, "family", DQ, ":", " ", DQ, "$TASK_FAMILY", DQ, ",", DQ, " ", ">>", " ", "taskdef.json">>,
      <<"echo", " ", DQ, "  ", DQ, "networkMode", DQ, ":", " ", DQ, "awsvpc", DQ, ",", DQ, " ", ">>", " ", "taskdef.json">>,
      <<"echo", " ", DQ, "  ", DQ, "executionRoleArn", DQ, ":", " ", DQ, "$EXECUTION_ROLE_ARN", DQ, ",", DQ, " ", ">>", " ", "taskdef.json">>,
      <<"echo", " ", DQ, "  ", DQ, "taskRoleArn", DQ, ":", " ", DQ, "$TASK_ROLE_ARN", DQ, ",", DQ, " ", ">>", " ", "taskdef.json">>,
      <<"echo", " ", DQ, "  ", DQ, "containerDefinitions", DQ, ":", " ", "[", DQ, " ", ">>", " ", "taskdef.json">>,
      <<"echo", " ", DQ, "    ", "{", DQ, " ", ">>", " ", "taskdef.json">>,
      <<"echo", " ", DQ, "      ", DQ, "name", DQ, ":", " ", DQ, "$CONTAINER_NAME", DQ, ",", DQ, " ", ">>", " ", "taskdef.json">>,
      <<"echo", " ", DQ, "      ", DQ, "image", DQ, ":", " ", DQ, "$IMAGE_URL", DQ, ",", DQ, " ", ">>", " ", "taskdef.json">>,
      <<"echo", " ", DQ, "      ", DQ, "memory", DQ, ":", " ", "512", ",", DQ, " ", ">>", " ", "taskdef.json">>,
      <<"echo", " ", DQ, "      ", DQ, "cpu", DQ, ":", " ", "256", ",", DQ, " ", ">>", " ", "taskdef.json">>,
      <<"echo", " ", DQ, "      ", DQ, "essential", DQ, ":", " ", "true", ",", DQ, " ", ">>", " ", "taskdef.json">>,
      <<"echo", " ", DQ, "      ", DQ, "portMappings", DQ, ":", " ", "[", DQ, " ", ">>", " ", "taskdef.json">>,
      <<"echo", " ", DQ, "        ", "{", DQ, " ", ">>", " ", "taskdef.json">>,
      <<"echo", " ", DQ, "          ", DQ, "containerPort", DQ, ":", " ", "$CONTAINER_PORT", ",", DQ, " ", ">>", " ", "taskdef.json">>,
      <<"echo", " ", DQ, "          ", DQ, "hostPort", DQ, ":", " ", "$HOST_PORT", DQ, " ", ">>", " ", "taskdef.json">>,
      <<"echo", " ", DQ, "        ", "}", DQ, " ", ">>", " ", "taskdef.json">>,
      <<"echo", " ", DQ, "      ", "]", DQ, " ", ">>", " ", "taskdef.json">>,
      <<"echo", " ", DQ, "    ", "}", DQ, " ", ">>", " ", "taskdef.json">>,
      <<"echo", " ", DQ, "  ", "]", DQ, " ", ">>", " ", "taskdef.json">>,
      <<"echo", " ", DQ, "}", DQ, " ", ">>", " ", "taskdef.json">>,
      <<"echo", " ", DQ, "version", ":", " ", "0.0", DQ, " ", ">", " ", "appspec.yaml">>,
      <<"echo", " ", DQ, "Resources", ":", DQ, " ", ">>", " ", "appspec.yaml">>,
      <<"echo", " ", DQ, "  ", "-", " ", "TargetService", ":", DQ, " ", ">>", " ", "appspec.yaml">>,
      <<"echo", " ", DQ, "      ", "Type", ":", " ", "AWS", ":", ":", "ECS", ":", ":", "Service", DQ, " ", ">>", " ", "appspec.yaml">>,
      <<"echo", " ", DQ, "      ", "Properties", ":", DQ, " ", ">>", " ", "appspec.yaml">>,
      <<"echo", " ", DQ, "        ", "TaskDefinition", ":", " ", "<TASK_DEFINITION", ">", DQ, " ", ">>", " ", "appspec.yaml">>,
      <<"echo", " ", DQ, "        ", "LoadBalancerInfo", ":", DQ, " ", ">>", " ", "appspec.yaml">>,
      <<"echo", " ", DQ, "          ", "ContainerName", ":", " ", DQ, "$CONTAINER_NAME", DQ, DQ, " ", ">>", " ", "appspec.yaml">>,
      <<"echo", " ", DQ, "          ", "ContainerPort", ":", " ", "$CONTAINER_PORT", DQ, " ", ">>", " ", "appspec.yaml">>,
      <<"cat", " ", "taskdef.json">>,
      <<"cat", " ", "appspec.yaml">>>>

EnvironmentVariable(name, value) == [name |-> name, value |-> value]

\* new cdk.aws_codebuild.PipelineProject(this, "CodeBuildProject", {...})
PipelineProject(p, environmentVariables, commands, files) ==
    [id |-> "CodeBuildProject",
     projectName |-> p \o "_BuildProject",
     environmentVariables |-> environmentVariables,
     commands |-> commands,
     files |-> files]

RoleArn(role) == role \o ".Arn"

\* helper variant: the task family, the container name and the container port
\* are handed to the build as environment variables
createCodeBuildProject(compute, p) ==
    PipelineProject(p,
        <<EnvironmentVariable("TASK_DEFINITION", p \o "-task"),
          EnvironmentVariable("CONTAINER_NAME", p \o "-container"),
          EnvironmentVariable("CONTAINER_PORT", "80")>>,
        helperCommands,
        <<"taskdef.json", "appspec.yaml">>)

\* lib/deploy.ts, first class: no environment variable is declared
nginxBuildProject(compute, p) ==
    PipelineProject(p, <<>>, nginxCommands, <<"appspec.yml", "taskdef.json">>)

\* lib/deploy.ts, second class: no build specification is given
bareBuildProject(compute, p) ==
    PipelineProject(p, <<>>, <<>>, <<>>)

\* lib/ecs_boilerplate-stack.ts, first DeployStack: the three variables are
\* written under `environment` of the build specification, which is not its
\* `env` section: the project declares no environment variable
appspecBuildProject(compute, p) ==
    PipelineProject(p, <<>>, appspecCommands, <<"appspec.yml", "**/*">>)

\* lib/ecs_boilerplate-stack.ts, second DeployStack
taskdefBuildProject(compute, p) ==
    PipelineProject(p,
        <<EnvironmentVariable("TASK_FAMILY", p \o "-task"),
          EnvironmentVariable("CONTAINER_NAME", p \o "-container"),
          EnvironmentVariable("CONTAINER_PORT", "80"),
          EnvironmentVariable("HOST_PORT", "80"),
          EnvironmentVariable("TASK_ROLE_ARN", RoleArn(compute.taskDefinition.taskRole)),
          EnvironmentVariable("EXECUTION_ROLE_ARN", RoleArn(compute.taskDefinition.executionRole))>>,
        taskdefCommands,
        <<"taskdef.json", "appspec.yaml">>)

\* the build projects a DeployStack variant declares
BuildProjects(variant, compute, p) ==
    CASE variant = "helper" -> <<createCodeBuildProject(compute, p)>>
      [] variant = "nginx" -> <<nginxBuildProject(compute, p)>>
      [] variant = "bare" -> <<bareBuildProject(compute, p)>>
      [] variant = "appspec" -> <<appspecBuildProject(compute, p)>>
      [] variant = "taskdef" -> <<taskdefBuildProject(compute, p)>>
      [] variant = "nobuild" -> <<>>

(***************************************************************************)
(* The build: the shell that runs the commands of a build specification.   *)
(***************************************************************************)
RECURSIVE Spaces(_)
Spaces(n) == IF n = 0 THEN "" ELSE " " \o Spaces(n - 1)

Blanks == {Spaces(n) : n \in 1..16}

\* the variables the commands refer to
VariableRefs ==
    {"$TASK_DEFINITION", "$TASK_DEFINITION_ARN", "$TASK_FAMILY", "$CONTAINER_NAME",
     "$CONTAINER_PORT", "$HOST_PORT", "$TASK_ROLE_ARN", "$EXECUTION_ROLE_ARN",
     "$IMAGE_URI", "$IMAGE_TAG", "$IMAGE_URL", "$CODEBUILD_SOURCE_REPO_URL"}

\* parameter expansion: the value of a variable that is set, nothing for one
\* that is not, and every other unit as it stands
Expand(unit, variables) ==
    IF unit \notin VariableRefs THEN unit
    ELSE LET set == {k \in DOMAIN variables : "$" \o variables[k].name = unit}
         IN  IF set = {} THEN "" ELSE variables[CHOOSE k \in set : TRUE].value

ShellStart == [mode |-> "none", words |-> <<>>, redirect |-> "", file |-> ""]

\* a word goes to the command, or to the name of the file once a redirection
\* has been read
Emit(st, word) ==
    IF st.redirect = ""
    THEN [st EXCEPT !.words = Append(@, word)]
    ELSE IF word \in Blanks /\ st.mode = "none" THEN st
    ELSE [st EXCEPT !.file = @ \o word]

\* one lexical unit read by the shell: outside quotes a quote character opens
\* a quoted part and an escaped quote is the character itself; within double
\* quotes only the double quote closes, and variables are expanded; within
\* single quotes everything up to the next single quote is literal
ShellUnit(st, unit, variables) ==
    CASE st.mode = "single" ->
            IF unit = SQ THEN [st EXCEPT !.mode = "none"] ELSE Emit(st, unit)
      [] st.mode = "double" ->
            IF unit = DQ THEN [st EXCEPT !.mode = "none"]
            ELSE IF unit = ESCDQ THEN Emit(st, DQ)
            ELSE Emit(st, Expand(unit, variables))
      [] st.mode = "none" ->
            IF unit = DQ THEN [st EXCEPT !.mode = "double"]
            ELSE IF unit = SQ THEN [st EXCEPT !.mode = "single"]
            ELSE IF unit = ESCDQ THEN Emit(st, DQ)
            ELSE IF unit \in {">", ">>"} THEN [st EXCEPT !.redirect = unit]
            ELSE Emit(st, Expand(unit, variables))

\* the shell after the first k units of the command
RECURSIVE ShellUpTo(_, _, _)
ShellUpTo(command, k, variables) ==
    IF k = 0 THEN ShellStart
    ELSE ShellUnit(ShellUpTo(command, k - 1, variables), command[k], variables)

Shell(command, variables) == ShellUpTo(command, Len(command), variables)

\* a command whose last quoted part is closed
BalancedQuoting(command) == Shell(command, <<>>).mode = "none"

\* what `echo` prints: its arguments, as one line
EchoLine(sh) == SubSeq(sh.words, 3, Len(sh.words))

\* the words of a list of lines
RECURSIVE Words(_)
Words(lines) == IF lines = <<>> THEN <<>> ELSE Head(lines) \o Words(Tail(lines))

\* every command of the project as the shell reads it, the project's
\* environment variables being the variables of the shell
Parsed(project) ==
    [k \in DOMAIN project.commands |->
        Shell(project.commands[k], project.environmentVariables)]

\* the commands that run: the build stops at the first command the shell
\* rejects
Ran(parsed) ==
    {k \in DOMAIN parsed : \A j \in 1..k : parsed[j].mode = "none"}

\* the commands that ran and wrote to the file
WritesTo(parsed, file) == {k \in Ran(parsed) : parsed[k].file = file}

\* the commands whose lines the file holds at the end: `>` and a tool other
\* than echo replace what the file held, `>>` appends to it; what a tool
\* writes is the tool's and is left out
Kept(parsed, file) ==
    {k \in WritesTo(parsed, file) :
        /\ parsed[k].words[1] = "echo"
        /\ \A j \in WritesTo(parsed, file) :
              j > k => (parsed[j].words[1] = "echo" /\ parsed[j].redirect = ">>")}

\* the i-th smallest element of a set of numbers
Nth(S, i) == CHOOSE k \in S : Cardinality({j \in S : j <= k}) = i

\* the lines of the file once the build has run
Written(project, file) ==
    LET parsed == Parsed(project)
        kept == Kept(parsed, file)
    IN  [i \in 1..Cardinality(kept) |-> EchoLine(parsed[Nth(kept, i)])]

\* every word the commands of the project are made of, once expanded
CommandWords(project) ==
    LET parsed == Parsed(project)
    IN  Words([k \in DOMAIN parsed |-> parsed[k].words])

(***************************************************************************)
(* Release Pipeline: the DeployStack constructors.                         *)
(***************************************************************************)
ReleaseStack(variant, p, compute, pipeline) ==
    [variant |-> variant,
     application |-> [id |-> "CodeDeployApplication",
                      applicationName |-> p \o "_CodeDeployApplication"],
     deploymentGroups |->
        <<createCodeDeployDeploymentGroup(p, compute.service, compute.blueTargetGroup,
                                          compute.greenTargetGroup, compute.listener)>>,
     buildProjects |-> BuildProjects(variant, compute, p),
     pipelines |-> <<pipeline>>]

\* helper variant
DeployStackHelper(p, compute) ==
    LET artifacts == createPipelineArtifacts
    IN  ReleaseStack("helper", p, compute,
            createPipeline(p,
                createECRSourceAction(artifacts.sourceOutput),
                createManualApprovalAction,
                createBuildAction(artifacts.sourceOutput, artifacts.buildOutput),
                createDeployAction(<<artifacts.buildOutput>>, <<artifacts.buildOutput>>)))

\* lib/deploy.ts, first class: the build writes appspec.yml and taskdef.json
DeployStackNginx(p, compute) ==
    ReleaseStack("nginx", p, compute,
        inlinePipeline(p,
            createECRSourceAction("sourceOutput"),
            createManualApprovalAction,
            createBuildAction("sourceOutput", "buildOutput"),
            createDeployAction(<<"buildOutput">>, <<"buildOutput">>)))

\* lib/deploy.ts, second class: a build project with no build specification
DeployStackBare(p, compute) ==
    ReleaseStack("bare", p, compute,
        inlinePipeline(p,
            createECRSourceAction("sourceOutput"),
            createManualApprovalAction,
            createBuildAction("sourceOutput", "buildOutput"),
            createDeployAction(<<"buildOutput">>, <<"buildOutput">>)))

\* lib/deploy.ts, third class: Source and Deploy only
DeployStackNoBuild(p, compute) ==
    ReleaseStack("nobuild", p, compute,
        sourceDeployPipeline(p,
            createECRSourceAction("sourceOutput"),
            createDeployAction(<<"sourceOutput">>, <<"sourceOutput">>)))

\* lib/ecs_boilerplate-stack.ts, first DeployStack: the deploy action is
\* given appSpecTemplateInput alone
DeployStackAppspec(p, compute) ==
    ReleaseStack("appspec", p, compute,
        inlinePipeline(p,
            createECRSourceAction("sourceOutput"),
            createManualApprovalAction,
            createBuildAction("sourceOutput", "buildOutput"),
            createDeployAction(<<"buildOutput">>, <<>>)))

\* lib/ecs_boilerplate-stack.ts, second DeployStack
DeployStackTaskdef(p, compute) ==
    ReleaseStack("taskdef", p, compute,
        inlinePipeline(p,
            createECRSourceAction("sourceOutput"),
            createManualApprovalAction,
            createBuildAction("sourceOutput", "buildOutput"),
            createDeployAction(<<"buildOutput">>, <<"buildOutput">>)))

DeployVariants == {"helper", "nginx", "bare", "nobuild", "appspec", "taskdef"}

DeployStack(variant, p, compute) ==
    CASE variant = "helper" -> DeployStackHelper(p, compute)
      [] variant = "nginx" -> DeployStackNginx(p, compute)
      [] variant = "bare" -> DeployStackBare(p, compute)
      [] variant = "nobuild" -> DeployStackNoBuild(p, compute)
      [] variant = "appspec" -> DeployStackAppspec(p, compute)
      [] variant = "taskdef" -> DeployStackTaskdef(p, compute)

(***************************************************************************)
(* The composition root: EcsBoilerplateStack's constructor, one action per *)
(* call it makes.  The repository holds three roots: the one with a Data   *)
(* Store, the one without, and the one without that reads the account and  *)
(* the region with no fallback.                                            *)
(***************************************************************************)
Roots == {"database", "methods", "inline"}

NoSubnets == [variant |-> "none", publicSubnets |-> <<>>, privateSubnets |-> <<>>]

NoStackEnv == [account |-> "", region |-> ""]

NoRollout ==
    [state |-> "none", id |-> 0, autoRollback |-> FALSE, blue |-> "", green |-> "",
     serving |-> {}, original |-> "", standby |-> "", unhealthy |-> FALSE]

NoExecution ==
    [status |-> "none", id |-> 0, stages |-> <<>>, stage |-> 0, started |-> <<>>,
     approved |-> FALSE, retried |-> {}]

\* setProjectInfo: every variable has a fallback
projectInfo(e) ==
    [proj |-> OrDefault(e, "PROJECT_NAME", "ecs-boilerplate"),
     account |-> OrDefault(e, "CDK_DEFAULT_ACCOUNT", "123456789012"),
     region |-> OrDefault(e, "CDK_DEFAULT_REGION", "ap-southeast-1")]

\* the root with its calls inline: the project name alone has a fallback
inlineProjectInfo(e) ==
    [proj |-> OrDefault(e, "PROJECT_NAME", "ecs-boilerplate"),
     account |-> Lookup(e, "CDK_DEFAULT_ACCOUNT"),
     region |-> Lookup(e, "CDK_DEFAULT_REGION")]

(***************************************************************************)
(* Constructor calls: the arguments of a call are bound to the parameters  *)
(* of the constructor by position, whatever they are.  An argument is kept *)
(* with its type and with the text a template literal makes of it.         *)
(***************************************************************************)
\* a string
StringArgument(text) == [type |-> "string", text |-> text]

\* a stack: in a template literal a construct gives its path
StackArgument(class) == [type |-> class, text |-> "EcsBoilerplateStack/" \o class]

\* {env: {account, region}}
PropsArgument == [type |-> "StackProps", text |-> "[object Object]"]

\* a parameter no argument is passed for
UndefinedArgument == [type |-> "undefined", text |-> "undefined"]

\* the parameters the constructors declare after scope and id
VPCStackParameters == <<"proj", "props">>

DatabaseStackParameters == <<"proj", "vpcStack", "props">>

ECSStackParameters == <<"vpcStack", "proj", "props">>

DeployStackParameters == <<"ecsStack", "proj", "props">>

\* new VPCStack(this, "VPCStack", proj, {env})
VPCStackArguments(p) == <<StringArgument(p), PropsArgument>>

\* new DatabaseStack(this, "DatabaseStack", this.proj, vpcStack, {env})
DatabaseStackArguments(p) == <<StringArgument(p), StackArgument("VPCStack"), PropsArgument>>

\* new ECSStack(this, "ECSStack", vpcStack, database, this.proj, {env}) in
\* the root with a Data Store; new ECSStack(this, "ECSStack", vpcStack, proj,
\* {env}) in the others
ECSStackArguments(r, p) ==
    IF r = "database"
    THEN <<StackArgument("VPCStack"), StackArgument("DatabaseStack"),
           StringArgument(p), PropsArgument>>
    ELSE <<StackArgument("VPCStack"), StringArgument(p), PropsArgument>>

\* new DeployStack(this, "DeployStack", ecsStack, proj, {env})
DeployStackArguments(p) == <<StackArgument("ECSStack"), StringArgument(p), PropsArgument>>

\* the argument a parameter receives: the one at its position
Received(parameters, arguments, name) ==
    LET k == CHOOSE i \in DOMAIN parameters : parameters[i] = name
    IN  IF k <= Len(arguments) THEN arguments[k] ELSE UndefinedArgument

\* one entry of the construction record
Constructed(component, handles, parameters, arguments) ==
    [component |-> component, handles |-> handles,
     parameters |-> parameters, arguments |-> arguments]

Init ==
    /\ pc = "start"
    /\ env \in Environments
    /\ regionZones \in RegionZoneLists
    /\ root \in Roots
    /\ proj = ""
    /\ stackEnv = NoStackEnv
    /\ constructed = <<>>
    /\ vpcStack = NoStack
    /\ databaseStack = NoStack
    /\ ecsStack = NoStack
    /\ deployStack = NoStack
    /\ fnZones = <<>>
    /\ fnSubnets = NoSubnets
    /\ rollout = NoRollout
    /\ execution = NoExecution

setProjectInfo ==
    /\ pc = "start"
    /\ LET info == IF root = "inline" THEN inlineProjectInfo(env) ELSE projectInfo(env)
       IN  /\ proj' = info.proj
           /\ stackEnv' = [account |-> info.account, region |-> info.region]
    /\ pc' = "vpc"
    /\ UNCHANGED <<inputVars, subnetVars, engineVars, constructed,
                   vpcStack, databaseStack, ecsStack, deployStack>>

createVPCStack ==
    /\ pc = "vpc"
    /\ \E variant \in NetVariants :
          vpcStack' = VPCStack(variant, env,
                               Received(VPCStackParameters, VPCStackArguments(proj),
                                        "proj").text,
                               regionZones)
    /\ constructed' = Append(constructed,
                             Constructed("Network", {}, VPCStackParameters,
                                         VPCStackArguments(proj)))
    /\ pc' = IF root = "database" THEN "database" ELSE "ecs"
    /\ UNCHANGED <<inputVars, subnetVars, engineVars, proj, stackEnv,
                   databaseStack, ecsStack, deployStack>>

createDatabaseStack ==
    /\ pc = "database"
    /\ \E variant \in DbVariants :
          databaseStack' = DatabaseStack(variant,
                                         Received(DatabaseStackParameters,
                                                  DatabaseStackArguments(proj),
                                                  "proj").text,
                                         vpcStack)
    /\ constructed' = Append(constructed,
                             Constructed("Data Store", {"Network"},
                                         DatabaseStackParameters,
                                         DatabaseStackArguments(proj)))
    /\ pc' = "ecs"
    /\ UNCHANGED <<inputVars, subnetVars, engineVars, proj, stackEnv,
                   vpcStack, ecsStack, deployStack>>

\* the constructor either declares the whole stack or throws where it reads
\* the registry reference; its project name is what its proj parameter
\* receives
createECSStack ==
    /\ pc = "ecs"
    /\ \E variant \in EcsVariants :
          \E outcome \in RegistryOutcomes(variant, env) :
              LET received == Received(ECSStackParameters,
                                       ECSStackArguments(root, proj), "proj").text
              IN  IF outcome = "throws"
                  THEN /\ ecsStack' = ECSStackAborted(variant, received)
                       /\ constructed' = constructed
                       /\ pc' = "aborted"
                  ELSE /\ ecsStack' = ECSStack(variant, env, received, vpcStack)
                       /\ constructed' =
                             Append(constructed,
                                    Constructed("Compute",
                                                IF root = "database"
                                                THEN {"Network", "Data Store"}
                                                ELSE {"Network"},
                                                ECSStackParameters,
                                                ECSStackArguments(root, proj)))
                       /\ pc' = "deploy"
    /\ UNCHANGED <<inputVars, subnetVars, engineVars, proj, stackEnv,
                   vpcStack, databaseStack, deployStack>>

\* createDeployStack run as soon as the network stands, before the compute
\* stack it is handed exists
createDeployStackBeforeECS ==
    /\ pc = "ecs"
    /\ constructed[Len(constructed)].component # "Release Pipeline"
    /\ \E variant \in DeployVariants :
          deployStack' = [variant |-> variant]
    /\ constructed' = Append(constructed,
                             Constructed("Release Pipeline", {"Compute"},
                                         DeployStackParameters,
                                         DeployStackArguments(proj)))
    /\ pc' = "ecs"
    /\ UNCHANGED <<inputVars, subnetVars, engineVars, proj, stackEnv,
                   vpcStack, databaseStack, ecsStack>>

createDeployStack ==
    /\ pc = "deploy"
    /\ \E variant \in DeployVariants :
          deployStack' = DeployStack(variant,
                                     Received(DeployStackParameters,
                                              DeployStackArguments(proj), "proj").text,
                                     ecsStack)
    /\ constructed' = Append(constructed,
                             Constructed("Release Pipeline", {"Compute"},
                                         DeployStackParameters,
                                         DeployStackArguments(proj)))
    /\ pc' = "done"
    /\ UNCHANGED <<inputVars, subnetVars, engineVars, proj, stackEnv,
                   vpcStack, databaseStack, ecsStack>>

Next ==
    \/ setProjectInfo
    \/ createVPCStack
    \/ createDatabaseStack
    \/ createECSStack
    \/ createDeployStack

Spec == Init /\ [][Next]_vars

(***************************************************************************)
(* Subnet creation on its own: the constructor's two subnet-creation calls *)
(* applied to any list of distinct zones, whatever its length.             *)
(***************************************************************************)
Projects == {"demo", "ecs-boilerplate"}

SubnetInit ==
    /\ pc = "subnets"
    /\ env \in {e \in Environments : DOMAIN e = {}}
    /\ regionZones = <<>>
    /\ root = "database"
    /\ proj \in Projects
    /\ stackEnv = NoStackEnv
    /\ constructed = <<>>
    /\ vpcStack = NoStack
    /\ databaseStack = NoStack
    /\ ecsStack = NoStack
    /\ deployStack = NoStack
    /\ fnZones \in ZoneLists
    /\ fnSubnets = NoSubnets
    /\ rollout = NoRollout
    /\ execution = NoExecution

callSubnetCreation ==
    /\ pc = "subnets"
    /\ \E variant \in NetVariants :
          fnSubnets' = [variant |-> variant,
                        publicSubnets |->
                            SubnetCreation(variant, proj, fnZones).publicSubnets,
                        privateSubnets |->
                            SubnetCreation(variant, proj, fnZones).privateSubnets]
    /\ pc' = "subnets-done"
    /\ UNCHANGED <<inputVars, engineVars, proj, stackEnv, constructed, vpcStack,
                   databaseStack, ecsStack, deployStack, fnZones>>

SubnetNext == callSubnetCreation

SubnetSpec == SubnetInit /\ [][SubnetNext]_vars

(***************************************************************************)
(* The deployment engine: the rollouts of the service that the declared    *)
(* deployment group governs.  The engine is the managed service's; the     *)
(* repository declares only the group it reads.                            *)
(***************************************************************************)
MaxRollouts == 2

\* every deployment group declared so far
DeclaredDeploymentGroups ==
    (IF ecsStack.variant \in EcsVariants THEN Range(ecsStack.deploymentGroups) ELSE {})
        \cup (IF deployStack.variant \in DeployVariants
              THEN Range(deployStack.deploymentGroups) ELSE {})

\* the pool that takes the traffic before a rollout: the one the listener
\* forwards to, or the one the last rollout left active
ActivePool ==
    IF rollout.state = "none"
    THEN ecsStack.listener.targetGroups[1]
    ELSE CHOOSE pool \in rollout.serving : TRUE

\* the pool of the group that is not the active one
StandbyPool(group, active) ==
    LET others == {group.blueTargetGroup, group.greenTargetGroup} \ {active}
    IN  IF others = {} THEN active ELSE CHOOSE pool \in others : TRUE

FullEnvironment == DOMAIN env = EnvNames

\* a deployment is created: a new rollout, idle
createDeployment ==
    /\ pc = "done"
    /\ rollout.state \in {"none", "succeeded", "rolled-back"}
    /\ rollout.id < MaxRollouts
    /\ \E group \in DeclaredDeploymentGroups :
          rollout' = [state |-> "idle",
                      id |-> rollout.id + 1,
                      autoRollback |-> group.autoRollback.failedDeployment,
                      blue |-> group.blueTargetGroup,
                      green |-> group.greenTargetGroup,
                      serving |-> {ActivePool},
                      original |-> ActivePool,
                      standby |-> StandbyPool(group, ActivePool),
                      unhealthy |-> FALSE]
    /\ UNCHANGED <<pc, inputVars, subnetVars, proj, stackEnv, constructed, vpcStack,
                   databaseStack, ecsStack, deployStack, execution>>

\* traffic begins shifting from the active pool to the standby pool
beginTrafficShift ==
    /\ rollout.state = "idle"
    /\ rollout' = [rollout EXCEPT !.state = "deploying",
                                  !.serving = {rollout.original, rollout.standby}]
    /\ UNCHANGED <<pc, inputVars, subnetVars, proj, stackEnv, constructed, vpcStack,
                   databaseStack, ecsStack, deployStack, execution>>

\* a container health check fails during the rollout
healthCheckFails ==
    /\ rollout.state = "deploying"
    /\ ~rollout.unhealthy
    /\ rollout' = [rollout EXCEPT !.unhealthy = TRUE]
    /\ UNCHANGED <<pc, inputVars, subnetVars, proj, stackEnv, constructed, vpcStack,
                   databaseStack, ecsStack, deployStack, execution>>

\* the standby pool becomes the active pool and the old pool is drained
completeDeployment ==
    /\ rollout.state = "deploying"
    /\ ~rollout.unhealthy
    /\ rollout' = [rollout EXCEPT !.state = "succeeded",
                                  !.serving = {rollout.standby}]
    /\ UNCHANGED <<pc, inputVars, subnetVars, proj, stackEnv, constructed, vpcStack,
                   databaseStack, ecsStack, deployStack, execution>>

\* the failed deployment ends: rolled back where the group declares automatic
\* rollback on failed deployment, failed as it stands where it does not
resolveFailure ==
    /\ rollout.state = "deploying"
    /\ rollout.unhealthy
    /\ rollout' = IF rollout.autoRollback
                  THEN [rollout EXCEPT !.state = "rolled-back",
                                       !.serving = {rollout.original}]
                  ELSE [rollout EXCEPT !.state = "failed"]
    /\ UNCHANGED <<pc, inputVars, subnetVars, proj, stackEnv, constructed, vpcStack,
                   databaseStack, ecsStack, deployStack, execution>>

RolloutInit == Init /\ FullEnvironment

RolloutNext ==
    \/ Next
    \/ createDeployment
    \/ beginTrafficShift
    \/ healthCheckFails
    \/ completeDeployment
    \/ resolveFailure

\* the engine acts on a failed deployment: it does not leave it deploying
RolloutSpec == RolloutInit /\ [][RolloutNext]_vars /\ WF_vars(resolveFailure)

(***************************************************************************)
(* The pipeline engine: the executions of a declared pipeline.  The engine *)
(* is the managed service's; the repository declares only the stages it    *)
(* runs, in their order.                                                   *)
(***************************************************************************)
MaxExecutions == 2

\* every pipeline declared so far
DeclaredPipelines ==
    (IF ecsStack.variant \in EcsVariants THEN Range(ecsStack.pipelines) ELSE {})
        \cup (IF deployStack.variant \in DeployVariants
              THEN Range(deployStack.pipelines) ELSE {})

IsApproval(stage) ==
    \E a \in DOMAIN stage.actions : stage.actions[a].category = "Approval"

IsDeploy(stage) ==
    \E a \in DOMAIN stage.actions : stage.actions[a].category = "Deploy"

CurrentStage == execution.stages[execution.stage]

\* the execution moves past its current stage: the next stage starts, or the
\* execution ends
Advance(e) ==
    IF e.stage = Len(e.stages)
    THEN [e EXCEPT !.status = "succeeded"]
    ELSE [e EXCEPT !.stage = @ + 1,
                   !.started = Append(@, e.stages[e.stage + 1].stageName)]

\* an image push or an operator starts an execution: its first stage starts
startExecution ==
    /\ pc = "done"
    /\ execution.status \in {"none", "failed", "succeeded"}
    /\ execution.id < MaxExecutions
    /\ \E pipeline \in DeclaredPipelines :
          execution' = [status |-> "running",
                        id |-> execution.id + 1,
                        stages |-> pipeline.stages,
                        stage |-> 1,
                        started |-> <<pipeline.stages[1].stageName>>,
                        approved |-> FALSE,
                        retried |-> {}]
    /\ UNCHANGED <<pc, inputVars, subnetVars, proj, stackEnv, constructed, vpcStack,
                   databaseStack, ecsStack, deployStack, rollout>>

\* the actions of the current stage succeed
stageSucceeds ==
    /\ execution.status = "running"
    /\ ~IsApproval(CurrentStage)
    /\ execution' = Advance(execution)
    /\ UNCHANGED <<pc, inputVars, subnetVars, proj, stackEnv, constructed, vpcStack,
                   databaseStack, ecsStack, deployStack, rollout>>

\* an action of the current stage fails: the stage is started again, once,
\* where it declares automatic retry, and the execution fails where it does not
stageFails ==
    /\ execution.status = "running"
    /\ ~IsApproval(CurrentStage)
    /\ execution' =
          IF CurrentStage.onFailure = "RETRY" /\ execution.stage \notin execution.retried
          THEN [execution EXCEPT !.retried = @ \cup {execution.stage},
                                 !.started = Append(@, CurrentStage.stageName)]
          ELSE [execution EXCEPT !.status = "failed"]
    /\ UNCHANGED <<pc, inputVars, subnetVars, proj, stackEnv, constructed, vpcStack,
                   databaseStack, ecsStack, deployStack, rollout>>

\* the operator approves the manual approval action
approve ==
    /\ execution.status = "running"
    /\ IsApproval(CurrentStage)
    /\ execution' = Advance([execution EXCEPT !.approved = TRUE])
    /\ UNCHANGED <<pc, inputVars, subnetVars, proj, stackEnv, constructed, vpcStack,
                   databaseStack, ecsStack, deployStack, rollout>>

\* the operator rejects the manual approval action, or lets it time out
reject ==
    /\ execution.status = "running"
    /\ IsApproval(CurrentStage)
    /\ execution' = [execution EXCEPT !.status = "failed"]
    /\ UNCHANGED <<pc, inputVars, subnetVars, proj, stackEnv, constructed, vpcStack,
                   databaseStack, ecsStack, deployStack, rollout>>

PipelineInit == Init /\ FullEnvironment

PipelineNext ==
    \/ Next
    \/ startExecution
    \/ stageSucceeds
    \/ stageFails
    \/ approve
    \/ reject

PipelineSpec == PipelineInit /\ [][PipelineNext]_vars

(***************************************************************************)
(* What the stacks declare, for the properties below.                      *)
(***************************************************************************)
NetworkBuilt == vpcStack.variant # "none"

DatabaseBuilt == databaseStack.variant # "none"

ComputeBuilt == ecsStack.variant \in EcsVariants

ReleaseBuilt == deployStack.variant # "none"

(***************************************************************************)
(* CIDR notation: the addresses a block 10.0.n.0/20 holds.                 *)
(***************************************************************************)
CidrBlockOf(n) == "10.0." \o ToString(n) \o ".0/20"

\* the third octet written in a block of the form 10.0.n.0/20
ThirdOctet(cidr) == CHOOSE n \in 0..255 : CidrBlockOf(n) = cidr

\* a /20 block fixes the 20 leading bits: the upper 4 bits of the third octet
FirstAddress(cidr) ==
    LET n == ThirdOctet(cidr) IN ((10 * 256 + 0) * 256 + (n - (n % 16))) * 256

LastAddress(cidr) == FirstAddress(cidr) + (16 * 256 - 1)

Overlap(c1, c2) ==
    /\ FirstAddress(c1) <= LastAddress(c2)
    /\ FirstAddress(c2) <= LastAddress(c1)

CidrBlocks(subnets) == [k \in DOMAIN subnets |-> subnets[k].cidrBlock]

SubnetsCreated == pc = "subnets-done"

(***************************************************************************)
(* Properties.                                                             *)
(***************************************************************************)

\* C1: for a zone list of length N, 1 <= N <= 3, subnet creation declares the
\* public blocks 10.0.{16*i}.0/20 and the private blocks 10.0.{16*i+48}.0/20,
\* i = 0..N-1, and no two of these 2N blocks share an address.
C1_BlocksDisjoint ==
    (SubnetsCreated /\ Len(fnZones) >= 1 /\ Len(fnZones) <= 3) =>
        LET blocks == CidrBlocks(fnSubnets.publicSubnets)
                          \o CidrBlocks(fnSubnets.privateSubnets)
        IN  /\ Len(blocks) = 2 * Len(fnZones)
            /\ \A k \in 1..Len(fnZones) :
                  /\ fnSubnets.publicSubnets[k].cidrBlock = CidrBlockOf(16 * (k - 1))
                  /\ fnSubnets.privateSubnets[k].cidrBlock = CidrBlockOf(16 * (k - 1) + 48)
            /\ \A i, j \in DOMAIN blocks :
                  i # j => ~Overlap(blocks[i], blocks[j])

C1_Witness ==
    /\ SubnetsCreated
    /\ Len(fnZones) = 3
    /\ fnSubnets.variant = "helper"
    /\ Len(fnSubnets.privateSubnets) = 3

\* C2: with exactly 3 availability zones the network declares the public
\* subnets 10.0.0.0/20, 10.0.16.0/20, 10.0.32.0/20 and the private subnets
\* 10.0.48.0/20, 10.0.64.0/20, 10.0.80.0/20, in zone order, and no others.
C2_ThreeZoneBlocks ==
    (NetworkBuilt /\ Len(vpcStack.vpc.availabilityZones) = 3) =>
        /\ CidrBlocks(vpcStack.publicSubnets)
              = <<"10.0.0.0/20", "10.0.16.0/20", "10.0.32.0/20">>
        /\ CidrBlocks(vpcStack.privateSubnets)
              = <<"10.0.48.0/20", "10.0.64.0/20", "10.0.80.0/20">>
        /\ \A k \in 1..3 :
              /\ vpcStack.publicSubnets[k].availabilityZone
                    = vpcStack.vpc.availabilityZones[k]
              /\ vpcStack.privateSubnets[k].availabilityZone
                    = vpcStack.vpc.availabilityZones[k]
        /\ VpcConstructSubnets(vpcStack.vpc) = {}
        /\ Cardinality(DeclaredSubnets(vpcStack)) = 6

C2_Witness ==
    /\ NetworkBuilt
    /\ vpcStack.variant = "method"
    /\ Len(vpcStack.vpc.availabilityZones) = 3
    /\ Len(vpcStack.publicSubnets) = 3

\* C3: over a zone list of length N >= 4 subnet creation declares the public
\* subnet at index 3 and the private subnet at index 0 with the same block,
\* 10.0.48.0/20; it declares all N subnets of each kind and keeps the offsets.
C3_CollisionAtFourZones ==
    (SubnetsCreated /\ Len(fnZones) >= 4) =>
        /\ fnSubnets.publicSubnets[4].cidrBlock = "10.0.48.0/20"
        /\ fnSubnets.privateSubnets[1].cidrBlock = "10.0.48.0/20"
        /\ Overlap(fnSubnets.publicSubnets[4].cidrBlock,
                   fnSubnets.privateSubnets[1].cidrBlock)
        /\ Len(fnSubnets.publicSubnets) = Len(fnZones)
        /\ Len(fnSubnets.privateSubnets) = Len(fnZones)
        /\ \A k \in 1..Len(fnZones) :
              /\ fnSubnets.publicSubnets[k].cidrBlock = CidrBlockOf(16 * (k - 1))
              /\ fnSubnets.privateSubnets[k].cidrBlock = CidrBlockOf(16 * (k - 1) + 48)

C3_Witness ==
    /\ SubnetsCreated
    /\ Len(fnZones) >= 4
    /\ fnSubnets.variant = "inline"
    /\ Len(fnSubnets.publicSubnets) >= 4

\* C4: after VPC construction over N distinct zones every zone is the zone of
\* exactly one public and exactly one private subnet, and the public and the
\* private subnet at index i both carry the i-th zone.
C4_OneSubnetPairPerZone ==
    (NetworkBuilt /\ IsDistinct(vpcStack.vpc.availabilityZones)) =>
        LET azs == vpcStack.vpc.availabilityZones
            public == vpcStack.publicSubnets
            private == vpcStack.privateSubnets
        IN  /\ Len(public) = Len(azs)
            /\ Len(private) = Len(azs)
            /\ \A k \in DOMAIN azs :
                  /\ public[k].availabilityZone = azs[k]
                  /\ private[k].availabilityZone = azs[k]
            /\ \A zone \in Range(azs) :
                  /\ Cardinality({k \in DOMAIN public :
                                     public[k].availabilityZone = zone}) = 1
                  /\ Cardinality({k \in DOMAIN private :
                                     private[k].availabilityZone = zone}) = 1

C4_Witness ==
    /\ NetworkBuilt
    /\ vpcStack.variant = "helper"
    /\ Len(vpcStack.vpc.availabilityZones) = 3
    /\ IsDistinct(vpcStack.vpc.availabilityZones)
    /\ Len(vpcStack.privateSubnets) = 3

\* the route table of a subnet's own visibility
RouteTableFor(stack, subnet) ==
    IF subnet.tags.subnetType = "Public"
    THEN stack.publicRouteTable
    ELSE stack.privateRouteTable

AssociationsOf(stack, subnet) ==
    {k \in DOMAIN stack.associations : stack.associations[k].subnetId = Ref(subnet)}

\* C5: after VPC construction every declared subnet has exactly one
\* route-table association, and it is to the route table of its visibility.
C5_OneMatchingAssociation ==
    NetworkBuilt =>
        /\ Ref(vpcStack.publicRouteTable) # Ref(vpcStack.privateRouteTable)
        /\ \A subnet \in DeclaredSubnets(vpcStack) :
              /\ Cardinality(AssociationsOf(vpcStack, subnet)) = 1
              /\ \A k \in AssociationsOf(vpcStack, subnet) :
                    vpcStack.associations[k].routeTableId
                        = Ref(RouteTableFor(vpcStack, subnet))

C5_Witness ==
    /\ NetworkBuilt
    /\ vpcStack.variant = "inline"
    /\ Cardinality(DeclaredSubnets(vpcStack)) = 6
    /\ Len(vpcStack.associations) = 6

DefaultRoutesOf(stack, routeTable) ==
    {k \in DOMAIN stack.routes :
        /\ stack.routes[k].routeTableId = Ref(routeTable)
        /\ stack.routes[k].destinationCidrBlock = "0.0.0.0/0"}

EndpointsOn(stack, routeTable) ==
    {k \in DOMAIN stack.endpoints :
        Ref(routeTable) \in Range(stack.endpoints[k].routeTableIds)}

\* C6: after VPC construction the private route table has no 0.0.0.0/0 route
\* and its only attachment is the gateway-type S3 endpoint; the public route
\* table has exactly one 0.0.0.0/0 route, to the internet gateway attached to
\* the VPC.
C6_DefaultRouteOnlyPublic ==
    NetworkBuilt =>
        /\ DefaultRoutesOf(vpcStack, vpcStack.privateRouteTable) = {}
        /\ \A k \in DOMAIN vpcStack.routes :
              vpcStack.routes[k].routeTableId # Ref(vpcStack.privateRouteTable)
        /\ Cardinality(EndpointsOn(vpcStack, vpcStack.privateRouteTable)) = 1
        /\ \A k \in EndpointsOn(vpcStack, vpcStack.privateRouteTable) :
              /\ vpcStack.endpoints[k].vpcEndpointType = "Gateway"
              /\ vpcStack.endpoints[k].serviceName = ServiceName(env, "s3")
        /\ Cardinality(DefaultRoutesOf(vpcStack, vpcStack.publicRouteTable)) = 1
        /\ \A k \in DefaultRoutesOf(vpcStack, vpcStack.publicRouteTable) :
              /\ vpcStack.routes[k].gatewayId = Ref(vpcStack.internetGateway)
              /\ \E a \in DOMAIN vpcStack.gatewayAttachments :
                    /\ vpcStack.gatewayAttachments[a].internetGatewayId
                          = Ref(vpcStack.internetGateway)
                    /\ vpcStack.gatewayAttachments[a].vpcId = Ref(vpcStack.vpc)

C6_Witness ==
    /\ NetworkBuilt
    /\ vpcStack.variant = "single"
    /\ Len(vpcStack.routes) = 1
    /\ Len(vpcStack.endpoints) = 4

AttachedTo(resource, compute) ==
    {Ref(compute.blueTargetGroup), Ref(compute.greenTargetGroup)}
        \cap Range(resource.targetGroups)

\* C7: in every Compute/Serving variant exactly one of the two target groups
\* is attached to the listener and exactly one to the service, the same one,
\* blue; green is attached to neither.
C7_BlueAloneAttached ==
    ComputeBuilt =>
        /\ Ref(ecsStack.blueTargetGroup) # Ref(ecsStack.greenTargetGroup)
        /\ AttachedTo(ecsStack.listener, ecsStack) = {Ref(ecsStack.blueTargetGroup)}
        /\ AttachedTo(ecsStack.service, ecsStack) = {Ref(ecsStack.blueTargetGroup)}
        /\ Len(ecsStack.listener.targetGroups) = 1
        /\ Len(ecsStack.service.targetGroups) = 1

C7_Witness ==
    /\ ComputeBuilt
    /\ ecsStack.variant = "pipeline"
    /\ Len(ecsStack.service.targetGroups) = 1
    /\ Len(ecsStack.deploymentGroups) = 1

\* the stages of a pipeline in which some action outputs, or takes as input,
\* the artifact
ProducerStages(pipeline, artifact) ==
    {k \in DOMAIN pipeline.stages :
        \E a \in DOMAIN pipeline.stages[k].actions :
            artifact \in pipeline.stages[k].actions[a].outputs}

ConsumerStages(pipeline, artifact) ==
    {k \in DOMAIN pipeline.stages :
        \E a \in DOMAIN pipeline.stages[k].actions :
            artifact \in pipeline.stages[k].actions[a].inputs}

StageInputs(pipeline, k) ==
    UNION {pipeline.stages[k].actions[a].inputs : a \in DOMAIN pipeline.stages[k].actions}

\* C8: in every pipeline each artifact an action takes as input is the output
\* of an action in a strictly earlier stage of the same pipeline, and no other
\* stage consumes it.
C8_InputsProducedEarlier ==
    \A pipeline \in DeclaredPipelines :
        \A k \in DOMAIN pipeline.stages :
            \A artifact \in StageInputs(pipeline, k) :
                /\ \E i \in ProducerStages(pipeline, artifact) : i < k
                /\ ConsumerStages(pipeline, artifact) = {k}

C8_Witness ==
    /\ ReleaseBuilt
    /\ deployStack.variant = "helper"
    /\ \E pipeline \in DeclaredPipelines :
          /\ HasStage(pipeline, "Build")
          /\ ConsumerStages(pipeline, "sourceOutput") # {}
          /\ ConsumerStages(pipeline, "buildOutput") # {}

HasBuildAndApproval(pipeline) ==
    HasStage(pipeline, "Build") /\ HasStage(pipeline, "Approval")

RdsParameterNames(p) ==
    {"/" \o p \o "/rds/host", "/" \o p \o "/rds/port",
     "/" \o p \o "/rds/user", "/" \o p \o "/rds/pass"}

\* C10: for every project name p, Data Store construction declares parameters
\* with exactly the names /p/rds/host, /p/rds/port, /p/rds/user, /p/rds/pass;
\* for p = "demo": /demo/rds/host, /demo/rds/port, /demo/rds/user,
\* /demo/rds/pass.
C10_FourParameterNames ==
    DatabaseBuilt =>
        /\ ParameterNames(databaseStack) = RdsParameterNames(proj)
        /\ Len(databaseStack.parameters) = 4
        /\ proj = "demo" =>
              ParameterNames(databaseStack)
                  = {"/demo/rds/host", "/demo/rds/port",
                     "/demo/rds/user", "/demo/rds/pass"}

\* C11: in every Data Store variant the one database instance is not publicly
\* accessible, is placed in the private subnets of the VPC and in no public
\* one, and every security group attached to it (there is one) has as its only
\* ingress rule traffic from the VPC address block on TCP 3306.
C11_DatabasePrivateAndRestricted ==
    DatabaseBuilt =>
        LET database == databaseStack.database
        IN  /\ database.publiclyAccessible = FALSE
            /\ Range(database.subnetIds) = Range(Refs(vpcStack.privateSubnets))
            /\ Range(database.subnetGroupSubnetIds) = Range(Refs(vpcStack.privateSubnets))
            /\ Range(database.subnetIds) \cap Range(Refs(vpcStack.publicSubnets)) = {}
            /\ Len(database.securityGroups) = 1
            /\ \A k \in DOMAIN database.securityGroups :
                  database.securityGroups[k].ingress
                      = {[peer |-> vpcStack.vpc.vpcCidrBlock, port |-> "tcp/3306"]}

(***************************************************************************)
(* The order of construction.                                              *)
(***************************************************************************)
DependencyOrder == <<"Network", "Data Store", "Compute", "Release Pipeline">>

Position(component) == CHOOSE k \in DOMAIN DependencyOrder : DependencyOrder[k] = component

Components(log) == [k \in DOMAIN log |-> log[k].component]

\* each component at most once, and in dependency order
InDependencyOrder(log) ==
    \A i, j \in DOMAIN log :
        i < j => Position(log[i].component) < Position(log[j].component)

\* every handle a constructor was given is of a stack constructed before it
HandlesOfEarlierStacks(log) ==
    \A k \in DOMAIN log :
        \A handle \in log[k].handles :
            \E j \in DOMAIN log : j < k /\ log[j].component = handle

\* the components a root declares, in the order it constructs them
DeclaredComponents(r) ==
    IF r = "database"
    THEN <<"Network", "Data Store", "Compute", "Release Pipeline">>
    ELSE <<"Network", "Compute", "Release Pipeline">>

Services == {"s3", "ecr.dkr", "ecr.api", "logs", "ssm"}

\* the service names of a region
RegionServiceNames(region) == {"com.amazonaws." \o region \o "." \o service : service \in Services}

\* C13: for every combination of present and absent PROJECT_NAME,
\* CDK_DEFAULT_ACCOUNT and CDK_DEFAULT_REGION, a construction that does not
\* fail declares every name and property derived from such a variable with the
\* variable's value or its default ("ecs-boilerplate", "123456789012",
\* "ap-southeast-1"), never with a value derived from an absent variable.
C13_ValueOrDefault ==
    pc = "done" =>
        LET project == OrDefault(env, "PROJECT_NAME", "ecs-boilerplate")
            account == OrDefault(env, "CDK_DEFAULT_ACCOUNT", "123456789012")
            region == OrDefault(env, "CDK_DEFAULT_REGION", "ap-southeast-1")
        IN  /\ proj = project
            /\ root # "inline" => stackEnv = [account |-> account, region |-> region]
            /\ vpcStack.vpc.vpcName = project \o "-VPC"
            /\ \A k \in DOMAIN vpcStack.endpoints :
                  vpcStack.endpoints[k].serviceName \in RegionServiceNames(region)
            /\ ecsStack.cluster.clusterName = project \o "-cluster"
            /\ ecsStack.alb.loadBalancerName = project \o "-ALB"

\* the stacks in which some resource has been declared
StacksWithResources ==
    {stack \in {vpcStack, databaseStack, ecsStack, deployStack} : stack # NoStack}

\* C14: when the registry reference a construction needs (ECR_ARN, ECR_URI)
\* is missing, construction aborts, and it aborts before any resource of any
\* stack is declared: at the point of failure no VPC, subnet, cluster, role or
\* database has been declared.  (The database secret is generated by the
\* construct and its reference is resolved at deployment: it cannot fail here.)
C14_AbortsOnEmptyGraph ==
    /\ pc = "aborted" => StacksWithResources = {}
    /\ ComputeBuilt => IsSet(env, RegistryVariable(ecsStack.variant))
    /\ (~IsSet(env, "ECR_ARN") /\ ~IsSet(env, "ECR_URI")) => StacksWithResources = {}

\* C19: every Compute/Serving variant declares one scaling policy, with
\* minimum 1 and maximum 4 instances, a CPU trigger at 50% and a memory trigger
\* at 70%, each a trigger of its own, and the service's initial desired count
\* (1) lies within the band the policy keeps the count in.
C19_ScalingPolicyDeclared ==
    ComputeBuilt =>
        /\ Len(ecsStack.scaling) = 1
        /\ \A k \in DOMAIN ecsStack.scaling :
              /\ ecsStack.scaling[k].minCapacity = 1
              /\ ecsStack.scaling[k].maxCapacity = 4
              /\ ecsStack.scaling[k].cpuTargetUtilizationPercent = 50
              /\ ecsStack.scaling[k].memoryTargetUtilizationPercent = 70
              /\ ecsStack.service.desiredCount >= ecsStack.scaling[k].minCapacity
              /\ ecsStack.service.desiredCount <= ecsStack.scaling[k].maxCapacity

InterfaceEndpoints(stack) ==
    {k \in DOMAIN stack.endpoints : stack.endpoints[k].vpcEndpointType = "Interface"}

\* C20: every Network variant declares interface endpoints for exactly the
\* four services ecr.dkr, ecr.api, logs and ssm; each is placed in all private
\* subnets and in no public one, and each is attached to the one endpoint
\* security group.
C20_FourInterfaceEndpoints ==
    NetworkBuilt =>
        /\ {vpcStack.endpoints[k].serviceName : k \in InterfaceEndpoints(vpcStack)}
              = {ServiceName(env, service) : service \in {"ecr.dkr", "ecr.api", "logs", "ssm"}}
        /\ Cardinality(InterfaceEndpoints(vpcStack)) = 4
        /\ \A k \in InterfaceEndpoints(vpcStack) :
              /\ Range(vpcStack.endpoints[k].subnetIds) = Range(Refs(vpcStack.privateSubnets))
              /\ Range(vpcStack.endpoints[k].subnetIds)
                    \cap Range(Refs(vpcStack.publicSubnets)) = {}
              /\ vpcStack.endpoints[k].securityGroupIds = <<Ref(VPCEndpointSG)>>
        /\ Len(vpcStack.securityGroups) = 1

(***************************************************************************)
(* Rollouts.                                                               *)
(***************************************************************************)
RolloutTransitions ==
    {<<"idle", "deploying">>, <<"deploying", "succeeded">>, <<"deploying", "rolled-back">>}

\* the pools of the rollout's deployment group
Pools == {rollout.blue, rollout.green}

OnePoolActive ==
    /\ Cardinality(Pools) = 2
    /\ rollout.serving \subseteq Pools
    /\ Cardinality(rollout.serving) = 1

RolloutAtRest ==
    /\ rollout.state \in {"idle", "succeeded", "rolled-back"} => OnePoolActive
    /\ rollout.state = "idle" => rollout.serving = {rollout.original}
    /\ rollout.state = "succeeded" =>
          /\ rollout.serving = {rollout.standby}
          /\ rollout.standby # rollout.original
    /\ rollout.state = "rolled-back" => rollout.serving = {rollout.original}

RolloutStep ==
    (rollout'.id = rollout.id /\ rollout'.state # rollout.state) =>
        <<rollout.state, rollout'.state>> \in RolloutTransitions

\* C15: a rollout governed by the declared deployment group takes only the
\* transitions idle -> deploying, deploying -> succeeded and deploying ->
\* rolled-back; in succeeded the former standby pool is the active pool, in
\* rolled-back the original pool is, and in idle, succeeded and rolled-back
\* exactly one of the two pools is active.
C15_RolloutTransitions == []RolloutAtRest /\ [][RolloutStep]_vars

C15_Witness ==
    /\ rollout.state = "succeeded"
    /\ rollout.id = 2
    /\ rollout.original = "GreenTargetGroup"
    /\ rollout.serving = {"BlueTargetGroup"}

\* C16: every deployment group declares automatic rollback on failed
\* deployment, so that a rollout in which a container health check fails while
\* it is deploying eventually reaches rolled-back and never reaches succeeded.
C16_FailureRollsBack ==
    /\ [](\A group \in DeclaredDeploymentGroups : group.autoRollback.failedDeployment)
    /\ [](rollout.unhealthy => rollout.state # "succeeded")
    /\ ((rollout.state = "deploying" /\ rollout.unhealthy) ~> rollout.state = "rolled-back")

C16_Witness ==
    /\ rollout.state = "rolled-back"
    /\ rollout.unhealthy
    /\ rollout.serving = {rollout.original}
    /\ deployStack.variant = "helper"

(***************************************************************************)
(* Pipeline executions.                                                    *)
(***************************************************************************)
\* the names of the first n stages of the execution's pipeline
StagesUpTo(n) == [k \in 1..n |-> execution.stages[k].stageName]

\* each stage up to the current one was started once, and no later one
StartedOncePerStage ==
    execution.status # "none" => execution.started = StagesUpTo(execution.stage)

FailedExecutionStays ==
    (execution.status = "failed" /\ execution'.id = execution.id) =>
        execution' = execution

\* C17: within one pipeline execution, once a stage has failed no later stage
\* of that execution starts and the failed stage is not started again;
\* progress resumes only in a new execution.
C17_FailureHaltsExecution == []StartedOncePerStage /\ [][FailedExecutionStays]_vars

C17_Witness ==
    /\ execution.status = "failed"
    /\ execution.id = 2
    /\ execution.started = <<"Source", "Approval", "Build">>
    /\ Len(execution.stages) = 4

HasApproval(stages) == \E k \in DOMAIN stages : IsApproval(stages[k])

DeployStarted ==
    \E k \in DOMAIN execution.stages :
        /\ IsDeploy(execution.stages[k])
        /\ execution.stages[k].stageName \in Range(execution.started)

ApprovalPending ==
    /\ execution.status = "running"
    /\ IsApproval(CurrentStage)

\* C18: in an execution of a pipeline with the manual Approval stage the
\* Deploy stage is started only after the approval action was approved in that
\* same execution, and while the approval is pending no later stage is started.
C18_DeployAfterApproval ==
    (execution.status # "none" /\ HasApproval(execution.stages)) =>
        /\ DeployStarted => execution.approved
        /\ ApprovalPending =>
              /\ ~execution.approved
              /\ \A k \in DOMAIN execution.stages :
                    k > execution.stage =>
                        execution.stages[k].stageName \notin Range(execution.started)

C18_Witness ==
    /\ execution.status = "running"
    /\ HasApproval(execution.stages)
    /\ IsDeploy(CurrentStage)
    /\ execution.approved
    /\ execution.started = <<"Source", "Approval", "Build", "Deploy">>

(***************************************************************************)
(* The parameter store: the handoff from the Data Store to the Compute     *)
(* component.                                                              *)
(***************************************************************************)
\* the parameter-store keys the secrets of a container refer to
SecretKeys(container) == {container.secrets[k].parameterName : k \in DOMAIN container.secrets}

\* the values of the environment of a container
EnvironmentValues(container) == {container.environment[n] : n \in DOMAIN container.environment}

\* the values the Data Store publishes
ParameterValues(stack) == {stack.parameters[k].stringValue : k \in DOMAIN stack.parameters}

\* C21: the task definition of the Compute component binds the database
\* connection values as secrets that refer to the parameter-store keys the
\* Data Store declares: it has such bindings, every key they refer to is one
\* the Data Store declares, and no value the Data Store publishes is a literal
\* of the container's environment.
C21_SecretsByReference ==
    (ComputeBuilt /\ DatabaseBuilt) =>
        \A k \in DOMAIN ecsStack.taskDefinition.containers :
            LET container == ecsStack.taskDefinition.containers[k]
            IN  /\ SecretKeys(container) # {}
                /\ SecretKeys(container) \subseteq ParameterNames(databaseStack)
                /\ EnvironmentValues(container) \cap ParameterValues(databaseStack) = {}

\* the StringParameter resources of a stack: none where the constructor
\* declares none
StringParameters(stack) == IF "parameters" \in DOMAIN stack THEN stack.parameters ELSE <<>>

\* every parameter-store entry declared so far, in the order of construction
DeclaredParameters ==
    StringParameters(vpcStack) \o StringParameters(databaseStack)
        \o StringParameters(ecsStack) \o StringParameters(deployStack)

DeclaredOnce ==
    \A i, j \in DOMAIN DeclaredParameters :
        i # j => DeclaredParameters[i].parameterName # DeclaredParameters[j].parameterName

OnlyByDataStore ==
    /\ DeclaredParameters = StringParameters(databaseStack)
    /\ StringParameters(ecsStack) = <<>>
    /\ StringParameters(deployStack) = <<>>
    /\ \A k \in DOMAIN DeclaredParameters :
          DeclaredParameters[k].parameterName \in RdsParameterNames(proj)

\* once the Data Store stands, a construction step declares no entry and
\* changes none
LaterStepsKeepParameters == DatabaseBuilt => DeclaredParameters' = DeclaredParameters

\* C22: over the whole construction each parameter-store key under
\* /{project}/rds/ is declared exactly once, and by the Data Store alone: the
\* Compute and the Release Pipeline component declare no entry, and the
\* construction of every later component leaves the declared entries as they
\* are.
C22_WriteOnceByDataStore ==
    /\ [](DeclaredOnce /\ OnlyByDataStore)
    /\ [][LaterStepsKeepParameters]_vars

C22_Witness ==
    /\ pc = "done"
    /\ databaseStack.variant = "fields"
    /\ Len(DeclaredParameters) = 4
    /\ ComputeBuilt
    /\ ReleaseBuilt

(***************************************************************************)
(* The descriptors the build writes.                                       *)
(***************************************************************************)
\* every build project declared so far
DeclaredBuildProjects ==
    IF deployStack.variant \in DeployVariants THEN Range(deployStack.buildProjects) ELSE {}

Min(S) == CHOOSE n \in S : \A m \in S : n <= m

\* the value that follows a key: the first word after it that is neither
\* blank nor a quote nor the colon
FieldValue(words, key) ==
    LET at == {i \in DOMAIN words : words[i] = key}
    IN  IF at = {} THEN ""
        ELSE LET after == {j \in DOMAIN words :
                              /\ j > Min(at)
                              /\ words[j] \notin (Blanks \cup {DQ, ":"})}
             IN  IF after = {} THEN "" ELSE words[Min(after)]

\* the application specification the build writes, under either of its names
AppSpec(project) == Words(Written(project, "appspec.yml") \o Written(project, "appspec.yaml"))

\* the task descriptor the build writes
TaskDef(project) == Words(Written(project, "taskdef.json"))

\* the task family of the build's task descriptor: the family it writes, or
\* the family it asks the service to describe
DescriptorFamily(project) ==
    IF "family" \in Range(TaskDef(project))
    THEN FieldValue(TaskDef(project), "family")
    ELSE FieldValue(CommandWords(project), "--task-definition")

\* containerName is not given: the container is named by its construct id
ContainerName(container) == container.id

\* C23: in every pipeline variant with a build stage, the task family, the
\* container name and the container port that the build writes into the
\* application specification and the task descriptor are the family, the
\* container name and the container port of the task definition the Compute
\* component declares.
C23_DescriptorsMatchTaskDefinition ==
    ComputeBuilt =>
        \A project \in DeclaredBuildProjects :
            project.commands # <<>> =>
                \A c \in DOMAIN ecsStack.taskDefinition.containers :
                    LET container == ecsStack.taskDefinition.containers[c]
                        port == ToString(container.portMappings[1].containerPort)
                        taskdef == TaskDef(project)
                    IN  /\ FieldValue(AppSpec(project), "ContainerName") = ContainerName(container)
                        /\ FieldValue(AppSpec(project), "ContainerPort") = port
                        /\ "name" \in Range(taskdef) =>
                              FieldValue(taskdef, "name") = ContainerName(container)
                        /\ "containerPort" \in Range(taskdef) =>
                              FieldValue(taskdef, "containerPort") = port
                        /\ DescriptorFamily(project) # "" =>
                              DescriptorFamily(project) = ecsStack.taskDefinition.family

\* the values JSON has outside quotes
JsonLiterals == {"true", "false", "null"} \cup {ToString(n) : n \in 0..65535}

JsonStart == [inString |-> FALSE, open |-> <<>>, ok |-> TRUE]

Closes(open, bracket) == open # <<>> /\ open[Len(open)] = bracket

\* one word of a document read as JSON: a quote opens or closes a string;
\* outside strings a bracket opens, a bracket closes the last one open if it is
\* of its kind, and a word is a literal, punctuation or blank
JsonWord(st, word) ==
    IF word = DQ THEN [st EXCEPT !.inString = ~@]
    ELSE IF st.inString THEN st
    ELSE IF word \in {"{", "["} THEN [st EXCEPT !.open = Append(@, word)]
    ELSE IF word = "}"
         THEN IF Closes(st.open, "{")
              THEN [st EXCEPT !.open = SubSeq(@, 1, Len(@) - 1)]
              ELSE [st EXCEPT !.ok = FALSE]
    ELSE IF word = "]"
         THEN IF Closes(st.open, "[")
              THEN [st EXCEPT !.open = SubSeq(@, 1, Len(@) - 1)]
              ELSE [st EXCEPT !.ok = FALSE]
    ELSE IF word \in ({":", ",", ""} \cup Blanks \cup JsonLiterals) THEN st
    ELSE [st EXCEPT !.ok = FALSE]

\* the reader after the first k words of a line
RECURSIVE JsonLine(_, _, _)
JsonLine(st, line, k) ==
    IF k = 0 THEN st ELSE JsonWord(JsonLine(st, line, k - 1), line[k])

\* the reader after the first k lines: it reads on while the document is
\* well formed
RECURSIVE JsonUpTo(_, _)
JsonUpTo(lines, k) ==
    IF k = 0 THEN JsonStart
    ELSE LET before == JsonUpTo(lines, k - 1)
         IN  IF before.ok THEN JsonLine(before, lines[k], Len(lines[k])) ELSE before

\* every key and every string is within a pair of double quotes, and the
\* braces and the brackets are balanced
WellFormedJson(lines) ==
    LET st == JsonUpTo(lines, Len(lines))
    IN  st.ok /\ ~st.inString /\ st.open = <<>>

\* C24: in every build-stage variant each shell command has balanced
\* quoting, and the lines the commands write to the task descriptor file make
\* a well-formed document: every key and every string value is within a pair
\* of double quotes and all braces and brackets are balanced.
C24_CommandsWellFormed ==
    \A project \in DeclaredBuildProjects :
        /\ \A k \in DOMAIN project.commands : BalancedQuoting(project.commands[k])
        /\ WellFormedJson(Written(project, "taskdef.json"))

(***************************************************************************)
(* The arguments of the constructor calls.                                 *)
(***************************************************************************)
\* the class of the network handle the constructors are declared with
HandleTypes == [vpcStack |-> "VPCStack", ecsStack |-> "ECSStack"]

\* C25: every stack constructor call of the composition root passes its
\* arguments in the number and at the positions the constructor declares: the
\* proj parameter of each stack receives the project-name string, and its
\* vpcStack (ecsStack) parameter receives the VPC stack (the ECS stack).
C25_ArgumentsMatchParameters ==
    \A k \in DOMAIN constructed :
        LET call == constructed[k]
        IN  /\ Len(call.arguments) = Len(call.parameters)
            /\ Received(call.parameters, call.arguments, "proj") = StringArgument(proj)
            /\ Received(call.parameters, call.arguments, "props") = PropsArgument
            /\ \A name \in DOMAIN HandleTypes :
                  name \in Range(call.parameters) =>
                      Received(call.parameters, call.arguments, name).type
                          = HandleTypes[name]

(***************************************************************************)
(* Public addresses of the subnets.                                        *)
(***************************************************************************)
\* C26: in every Network variant a subnet assigns public addresses on launch
\* exactly when its type is Public: true for the public subnets, false for
\* the private ones.
C26_PublicIpIffPublic ==
    NetworkBuilt =>
        \A subnet \in DeclaredSubnets(vpcStack) :
            subnet.mapPublicIpOnLaunch = (subnet.tags.subnetType = "Public")

(***************************************************************************)
(* Placement and exposure of the tasks and of the load balancer.           *)
(***************************************************************************)
\* the rules of the security groups of a resource
IngressRules(resource) ==
    UNION {resource.securityGroups[k].ingress : k \in DOMAIN resource.securityGroups}

\* C27: in every Compute variant the service's tasks run only in private
\* subnets, get no public address and admit ingress only from the VPC address
\* block; the load balancer sits only in public subnets, is internet-facing and
\* its security group admits ingress only on TCP port 80.
C27_TasksPrivateBalancerPublic ==
    ComputeBuilt =>
        LET service == ecsStack.service
            alb == ecsStack.alb
            public == Range(Refs(vpcStack.publicSubnets))
            private == Range(Refs(vpcStack.privateSubnets))
        IN  /\ Range(service.subnetIds) = private
            /\ Range(service.subnetIds) \cap public = {}
            /\ service.assignPublicIp = FALSE
            /\ IngressRules(service) # {}
            /\ \A rule \in IngressRules(service) :
                  rule.peer = vpcStack.vpc.vpcCidrBlock
            /\ Range(alb.subnetIds) = public
            /\ Range(alb.subnetIds) \cap private = {}
            /\ alb.internetFacing = TRUE
            /\ IngressRules(alb) # {}
            /\ \A rule \in IngressRules(alb) : rule.port = "tcp/80"

C27_Witness ==
    /\ ComputeBuilt
    /\ ecsStack.variant = "scaled"
    /\ Len(ecsStack.service.subnetIds) = 3
    /\ Len(ecsStack.alb.subnetIds) = 3
    /\ ecsStack.service.subnetIds[1] = "Private-Subnet-1"
    /\ ecsStack.alb.subnetIds[1] = "Public-Subnet-1"

(***************************************************************************)
(* The zone cap of the VPC.                                                *)
(***************************************************************************)
\* C28: every Network variant caps the VPC at three availability zones
\* (maxAzs 3), so the zone list handed to subnet creation has at most three
\* entries and no public block collides with a private block.
C28_ThreeZoneCap ==
    NetworkBuilt =>
        /\ vpcStack.vpc.maxAzs = 3
        /\ Len(vpcStack.vpc.availabilityZones) <= 3
        /\ Len(vpcStack.publicSubnets) = Len(vpcStack.vpc.availabilityZones)
        /\ Len(vpcStack.privateSubnets) = Len(vpcStack.vpc.availabilityZones)
        /\ \A i \in DOMAIN vpcStack.publicSubnets, j \in DOMAIN vpcStack.privateSubnets :
              ~Overlap(vpcStack.publicSubnets[i].cidrBlock,
                       vpcStack.privateSubnets[j].cidrBlock)

\* a region of more than three zones, and a network of three
C28_Witness ==
    /\ NetworkBuilt
    /\ Len(regionZones) > 3
    /\ Len(vpcStack.publicSubnets) = 3
    /\ Len(vpcStack.privateSubnets) = 3
    /\ vpcStack.variant = "inline"

(***************************************************************************)
(* The helper-based and the inline Network variants compared.              *)
(***************************************************************************)
HelperVariants == {"helper", "method"}

InlineVariants == {"inline", "single"}

\* Public or Private: the route table of the stack a reference names
Visibility(stack, routeTableId) ==
    IF routeTableId = Ref(stack.publicRouteTable) THEN "Public" ELSE "Private"

\* the network a stack declares: its subnets (block, zone, tags and
\* mapPublicIpOnLaunch), the route table each subnet is associated with, and
\* the routes
DeclaredNetwork(stack) ==
    [subnets |-> DeclaredSubnets(stack),
     associations |->
         {[subnetId |-> stack.associations[k].subnetId,
           routeTable |-> Visibility(stack, stack.associations[k].routeTableId)] :
             k \in DOMAIN stack.associations},
     routes |->
         {[routeTable |-> Visibility(stack, stack.routes[k].routeTableId),
           destinationCidrBlock |-> stack.routes[k].destinationCidrBlock,
           gatewayId |-> stack.routes[k].gatewayId] : k \in DOMAIN stack.routes}]

\* the variants of the other style
OtherStyle(variant) ==
    IF variant \in HelperVariants THEN InlineVariants ELSE HelperVariants

\* C29: for every zone list the helper-based and the inline Network variants
\* declare the same network: the same subnets (block, zone, tags,
\* mapPublicIpOnLaunch), the same associations and the same default route.
C29_HelperAndInlineAgree ==
    NetworkBuilt =>
        \A variant \in OtherStyle(vpcStack.variant) :
            DeclaredNetwork(VPCStack(variant, env, proj, regionZones))
                = DeclaredNetwork(vpcStack)

====
